---- MODULE Spec2Model ----
(***************************************************************************)
(* pgdoctor: a PostgreSQL health checker.  The model covers the result     *)
(* model (checks/mod.rs), the selection filter (cli.rs), the runner        *)
(* (main.rs), the report/exit status (output.rs) and the pure validators   *)
(* of the checks.                                                          *)
(*                                                                         *)
(* A Rust String is a sequence of one-character strings.  Option<T> is a   *)
(* record: None, or Some(x).                                               *)
(***************************************************************************)
EXTENDS Integers, Sequences, FiniteSets, TLC

VARIABLES
    pc,         \* position of the thread of control
    args,       \* the parsed command line (cli.rs Cli)
    client,     \* the database session of main: "none", "connected", "failed"
    idx,        \* 1-based position of the for loop of main in all_checks
    outcome,    \* per registry position: "pending", "skipped", "ok", "err"
    executed,   \* per check id: number of times Check::run was invoked
    results,    \* the Vec<CheckResult> of main
    errors,     \* check names named by the diagnostics written to stderr
    reports,    \* the argument of every call of print_results, in call order
    exit_code,  \* the process exit status, None while the process runs
    input,      \* argument of the function under evaluation
    output      \* its return value

vars == <<pc, args, client, idx, outcome, executed, results, errors,
          reports, exit_code, input, output>>

runner_vars == <<args, client, idx, outcome, executed, results, errors,
                 reports, exit_code>>

---------------------------------------------------------------------------
(* Option<T> *)

None == [some |-> FALSE]

Some(x) == [some |-> TRUE, value |-> x]

(* The sequences over S of length 0..n. *)
SeqsUpTo(S, n) == UNION {[1..k -> S] : k \in 0..n}

(* Vec::contains / slice::contains *)
contains(v, x) == \E k \in DOMAIN v : v[k] = x

---------------------------------------------------------------------------
(* checks/mod.rs: CheckStatus, CheckCategory, ValidationResult, CheckResult *)

CheckStatus == {"Ok", "Warn", "Critical"}

(* Display for CheckCategory *)
CheckCategory == {"performance", "storage", "indexes", "settings", "architecture"}

ValidationResult(name, status, fmt, fmt_args) ==
    [name |-> name, status |-> status, message |-> [fmt |-> fmt, args |-> fmt_args]]

CheckResult(check, validations) ==
    [check_id |-> check.id, check_name |-> check.name,
     category |-> check.category, validations |-> validations]

(* CheckResult::overall_status over the validations of the result *)
overall_status_warn_first(validations) ==
    LET has_critical == \E k \in DOMAIN validations : validations[k].status = "Critical"
        has_warn == \E k \in DOMAIN validations : validations[k].status = "Warn"
    IN  IF has_warn THEN "Warn"
        ELSE IF has_critical THEN "Critical"
        ELSE "Ok"

overall_status(validations) ==
    LET has_critical == \E k \in DOMAIN validations : validations[k].status = "Critical"
        has_warn == \E k \in DOMAIN validations : validations[k].status = "Warn"
    IN  IF has_critical THEN "Critical"
        ELSE IF has_warn THEN "Warn"
        ELSE "Ok"

---------------------------------------------------------------------------
(* cli.rs: RunArgs::should_run_check.  self is the record of the three     *)
(* Option<Vec<String>> fields.                                             *)

should_run_check_any(self, check_id, category) ==
    \/ (self.include.some /\ contains(self.include.value, check_id))
    \/ (self.exclude.some /\ ~contains(self.exclude.value, check_id))
    \/ (self.categories.some /\ contains(self.categories.value, category))
    \/ (~self.include.some /\ ~self.exclude.some /\ ~self.categories.some)

should_run_check_empty_as_absent(self, check_id, category) ==
    IF self.include.some /\ self.include.value # <<>>
          /\ ~contains(self.include.value, check_id)
    THEN FALSE
    ELSE IF self.exclude.some /\ contains(self.exclude.value, check_id)
    THEN FALSE
    ELSE IF self.categories.some /\ self.categories.value # <<>>
              /\ ~contains(self.categories.value, category)
    THEN FALSE
    ELSE TRUE

should_run_check(self, check_id, category) ==
    IF self.include.some /\ ~contains(self.include.value, check_id)
    THEN FALSE
    ELSE IF self.exclude.some /\ contains(self.exclude.value, check_id)
    THEN FALSE
    ELSE IF self.categories.some /\ ~contains(self.categories.value, category)
    THEN FALSE
    ELSE TRUE

---------------------------------------------------------------------------
(* Text.  str::split_whitespace, Iterator::nth, str::split('.').next() and *)
(* str::parse::<i32>() as used by VersionCheck::parse_version.             *)

Digits == {"0", "1", "2", "3", "4", "5", "6", "7", "8", "9"}

DigitValue(c) ==
    CASE c = "0" -> 0 [] c = "1" -> 1 [] c = "2" -> 2 [] c = "3" -> 3
      [] c = "4" -> 4 [] c = "5" -> 5 [] c = "6" -> 6 [] c = "7" -> 7
      [] c = "8" -> 8 [] c = "9" -> 9

(* char::is_whitespace, on the characters of the model's alphabet *)
is_whitespace(c) == c \in {" ", "\t", "\n"}

I32_MAX == 2147483647

I32_MIN == -2147483647 - 1

RECURSIVE SplitWhitespaceFrom(_, _, _, _)
SplitWhitespaceFrom(s, i, cur, acc) ==
    IF i > Len(s)
    THEN IF cur = <<>> THEN acc ELSE Append(acc, cur)
    ELSE IF is_whitespace(s[i])
    THEN SplitWhitespaceFrom(s, i + 1, <<>>, IF cur = <<>> THEN acc ELSE Append(acc, cur))
    ELSE SplitWhitespaceFrom(s, i + 1, Append(cur, s[i]), acc)

(* the tokens str::split_whitespace yields: maximal runs of non-whitespace *)
split_whitespace(s) == SplitWhitespaceFrom(s, 1, <<>>, <<>>)

(* Iterator::nth(n): the element at 0-based position n, if any *)
nth(items, n) == IF n + 1 <= Len(items) THEN Some(items[n + 1]) ELSE None

(* v.split('.').next(): the part of v before its first '.', always Some *)
split_dot_next(v) ==
    LET dots == {k \in DOMAIN v : v[k] = "."}
        first == IF dots = {} THEN Len(v) + 1
                 ELSE CHOOSE k \in dots : \A j \in dots : k <= j
    IN  Some(SubSeq(v, 1, first - 1))

(* The digit loop of i32::from_str: positive numbers accumulate upwards    *)
(* with checked_mul/checked_add, negative ones downwards with checked_sub. *)
RECURSIVE AccumulateI32(_, _, _, _)
AccumulateI32(digits, i, acc, negative) ==
    IF i > Len(digits) THEN Some(acc)
    ELSE LET d == DigitValue(digits[i])
         IN  IF negative
             THEN IF acc < (I32_MIN + d + 9) \div 10 THEN None
                  ELSE AccumulateI32(digits, i + 1, acc * 10 - d, negative)
             ELSE IF acc > (I32_MAX - d) \div 10 THEN None
                  ELSE AccumulateI32(digits, i + 1, acc * 10 + d, negative)

(* str::parse::<i32>().ok(): an optional sign, then one or more ASCII      *)
(* digits, the value within the i32 range                                  *)
parse_i32(v) ==
    LET signed == Len(v) >= 1 /\ v[1] \in {"+", "-"}
        digits == IF signed THEN Tail(v) ELSE v
    IN  IF digits = <<>> \/ (\E k \in DOMAIN digits : digits[k] \notin Digits)
        THEN None
        ELSE AccumulateI32(digits, 1, 0, signed /\ v[1] = "-")

---------------------------------------------------------------------------
(* checks/version/check.rs *)

VersionCheck == [id |-> "pg_version", name |-> "PostgreSQL Version Check",
                 category |-> "settings"]

(* the two and_then steps apply to the value of a Some and keep a None *)
parse_version(version_string) ==
    LET token == nth(split_whitespace(version_string), 1)
        major == IF token.some THEN split_dot_next(token.value) ELSE None
    IN  IF major.some THEN parse_i32(major.value) ELSE None

validate_version_le_10(version_string) ==
    LET major_version == parse_version(version_string)
    IN  IF major_version.some
        THEN LET version == major_version.value
             IN  IF version <= 10
                 THEN <<ValidationResult(<<"version_check">>, "Critical",
                          "PostgreSQL version {} is end-of-life and unsupported. Please upgrade immediately.",
                          <<version>>)>>
                 ELSE IF version < 12
                 THEN <<ValidationResult(<<"version_check">>, "Warn",
                          "PostgreSQL version {} is approaching end-of-life. Consider upgrading.",
                          <<version>>)>>
                 ELSE <<ValidationResult(<<"version_check">>, "Ok",
                          "PostgreSQL version {} is supported.", <<version>>)>>
        ELSE <<ValidationResult(<<"version_check">>, "Warn",
                 "Could not parse version from: {}", <<version_string>>)>>

validate_version_unparsed_critical(version_string) ==
    LET major_version == parse_version(version_string)
    IN  IF major_version.some
        THEN LET version == major_version.value
             IN  IF version < 10
                 THEN <<ValidationResult(<<"version_check">>, "Critical",
                          "PostgreSQL version {} is end-of-life and unsupported. Please upgrade immediately.",
                          <<version>>)>>
                 ELSE IF version < 12
                 THEN <<ValidationResult(<<"version_check">>, "Warn",
                          "PostgreSQL version {} is approaching end-of-life. Consider upgrading.",
                          <<version>>)>>
                 ELSE <<ValidationResult(<<"version_check">>, "Ok",
                          "PostgreSQL version {} is supported.", <<version>>)>>
        ELSE <<ValidationResult(<<"version_check">>, "Critical",
                 "Could not parse version from: {}", <<version_string>>)>>

validate_version(version_string) ==
    LET major_version == parse_version(version_string)
    IN  IF major_version.some
        THEN LET version == major_version.value
             IN  IF version < 10
                 THEN <<ValidationResult(<<"version_check">>, "Critical",
                          "PostgreSQL version {} is end-of-life and unsupported. Please upgrade immediately.",
                          <<version>>)>>
                 ELSE IF version < 12
                 THEN <<ValidationResult(<<"version_check">>, "Warn",
                          "PostgreSQL version {} is approaching end-of-life. Consider upgrading.",
                          <<version>>)>>
                 ELSE <<ValidationResult(<<"version_check">>, "Ok",
                          "PostgreSQL version {} is supported.", <<version>>)>>
        ELSE <<ValidationResult(<<"version_check">>, "Warn",
                 "Could not parse version from: {}", <<version_string>>)>>

---------------------------------------------------------------------------
(* 64-bit integers.  The model checker's integers are 32 bits wide, so an  *)
(* i64 is a sign and a magnitude, the magnitude a little-endian sequence   *)
(* of base-1024 digits without leading zero digits (zero is <<>>, never    *)
(* negative).                                                              *)

Base == 1024

RECURSIVE MagNorm(_)
MagNorm(m) ==
    IF m # <<>> /\ m[Len(m)] = 0 THEN MagNorm(SubSeq(m, 1, Len(m) - 1)) ELSE m

RECURSIVE MagFromNat(_)
MagFromNat(n) == IF n = 0 THEN <<>> ELSE <<n % Base>> \o MagFromNat(n \div Base)

RECURSIVE MagCmpFrom(_, _, _)
MagCmpFrom(a, b, k) ==
    IF k = 0 THEN 0
    ELSE IF a[k] < b[k] THEN -1
    ELSE IF a[k] > b[k] THEN 1
    ELSE MagCmpFrom(a, b, k - 1)

(* -1, 0, 1 as a < b, a = b, a > b *)
MagCmp(a, b) ==
    IF Len(a) < Len(b) THEN -1
    ELSE IF Len(a) > Len(b) THEN 1
    ELSE MagCmpFrom(a, b, Len(a))

MagDigit(m, k) == IF k <= Len(m) THEN m[k] ELSE 0

RECURSIVE MagAddFrom(_, _, _, _)
MagAddFrom(a, b, k, carry) ==
    IF k > Len(a) /\ k > Len(b)
    THEN IF carry = 0 THEN <<>> ELSE <<carry>>
    ELSE LET t == MagDigit(a, k) + MagDigit(b, k) + carry
         IN  <<t % Base>> \o MagAddFrom(a, b, k + 1, t \div Base)

MagAdd(a, b) == MagAddFrom(a, b, 1, 0)

RECURSIVE MagSubFrom(_, _, _, _)
MagSubFrom(a, b, k, borrow) ==
    IF k > Len(a) THEN <<>>
    ELSE LET t == a[k] - MagDigit(b, k) - borrow
         IN  <<t % Base>> \o MagSubFrom(a, b, k + 1, IF t < 0 THEN 1 ELSE 0)

(* a - b for a >= b *)
MagSub(a, b) == MagNorm(MagSubFrom(a, b, 1, 0))

RECURSIVE MagMulAddFrom(_, _, _, _)
MagMulAddFrom(a, f, k, carry) ==
    IF k > Len(a) THEN MagFromNat(carry)
    ELSE LET t == a[k] * f + carry
         IN  <<t % Base>> \o MagMulAddFrom(a, f, k + 1, t \div Base)

(* a * f + c for 0 <= f <= 1024 and 0 <= c < 1024 *)
MagMulAdd(a, f, c) == MagNorm(MagMulAddFrom(a, f, 1, c))

(* a / 1024^n, rounded down *)
MagShiftRight(a, n) == IF n >= Len(a) THEN <<>> ELSE SubSeq(a, n + 1, Len(a))

I64(neg, mag) == [neg |-> neg /\ mag # <<>>, mag |-> mag]

I64FromInt(n) == IF n < 0 THEN I64(TRUE, MagFromNat(-n)) ELSE I64(FALSE, MagFromNat(n))

(* -1, 0, 1 as a < b, a = b, a > b *)
I64Cmp(a, b) ==
    IF a.neg /\ ~b.neg THEN -1
    ELSE IF ~a.neg /\ b.neg THEN 1
    ELSE IF a.neg THEN MagCmp(b.mag, a.mag)
    ELSE MagCmp(a.mag, b.mag)

I64Lt(a, b) == I64Cmp(a, b) < 0

I64Ge(a, b) == I64Cmp(a, b) >= 0

I64Gt(a, b) == I64Cmp(a, b) > 0

(* the mathematical sum *)
I64Add(a, b) ==
    IF a.neg = b.neg THEN I64(a.neg, MagAdd(a.mag, b.mag))
    ELSE IF MagCmp(a.mag, b.mag) >= 0 THEN I64(a.neg, MagSub(a.mag, b.mag))
    ELSE I64(b.neg, MagSub(b.mag, a.mag))

(* the mathematical product with 0 <= f <= 1024 *)
I64MulSmall(a, f) == I64(a.neg, MagMulAdd(a.mag, f, 0))

(* 2^63 as a magnitude: 8 * 1024^6 *)
MagTwo63 == <<0, 0, 0, 0, 0, 0, 8>>

(* the value lies in -2^63 .. 2^63 - 1 *)
InI64Range(a) ==
    IF a.neg THEN MagCmp(a.mag, MagTwo63) <= 0 ELSE MagCmp(a.mag, MagTwo63) < 0

---------------------------------------------------------------------------
(* checks/table_sizes/check.rs.  A table is [schema, table, size], size an *)
(* i64; the sizes come from the size query of the check and their sum      *)
(* stays within the i64 range.                                             *)

TableSizesCheck == [id |-> "table_sizes", name |-> "Table Sizes Check",
                    category |-> "storage"]

KB == I64FromInt(1024)

MB == I64MulSmall(KB, 1024)

GB == I64MulSmall(MB, 1024)

TB == I64MulSmall(GB, 1024)

(* TableSizesCheck::format_bytes: the unit chosen and the quotient that is *)
(* rendered with two decimals                                              *)
format_bytes(bytes) ==
    IF I64Ge(bytes, TB) THEN [fmt |-> "{:.2} TB", args |-> <<bytes, TB>>]
    ELSE IF I64Ge(bytes, GB) THEN [fmt |-> "{:.2} GB", args |-> <<bytes, GB>>]
    ELSE IF I64Ge(bytes, MB) THEN [fmt |-> "{:.2} MB", args |-> <<bytes, MB>>]
    ELSE IF I64Ge(bytes, KB) THEN [fmt |-> "{:.2} KB", args |-> <<bytes, KB>>]
    ELSE [fmt |-> "{} bytes", args |-> <<bytes>>]

WARN_THRESHOLD == I64MulSmall(GB, 10)

CRITICAL_THRESHOLD == I64MulSmall(GB, 50)

(* tables.iter().map(|(_, _, size)| size).sum() *)
RECURSIVE SumSizes(_, _)
SumSizes(tables, k) ==
    IF k = 0 THEN I64FromInt(0) ELSE I64Add(SumSizes(tables, k - 1), tables[k].size)

RECURSIVE PerTableValidations_gt(_, _, _)
PerTableValidations_gt(tables, k, validations) ==
    IF k > Len(tables) THEN validations
    ELSE LET t == tables[k]
         IN  IF I64Gt(t.size, CRITICAL_THRESHOLD)
             THEN PerTableValidations_gt(tables, k + 1, Append(validations,
                     ValidationResult(<<"table_size_{}.{}", t.schema, t.table>>, "Critical",
                         "Table {}.{} is very large: {}. Consider partitioning or archiving.",
                         <<t.schema, t.table, format_bytes(t.size)>>)))
             ELSE IF I64Gt(t.size, WARN_THRESHOLD)
             THEN PerTableValidations_gt(tables, k + 1, Append(validations,
                     ValidationResult(<<"table_size_{}.{}", t.schema, t.table>>, "Warn",
                         "Table {}.{} is large: {}. Monitor growth and consider optimization.",
                         <<t.schema, t.table, format_bytes(t.size)>>)))
             ELSE PerTableValidations_gt(tables, k + 1, validations)

(* the for loop of validate_tables over tables[k..] *)
RECURSIVE PerTableValidations(_, _, _)
PerTableValidations(tables, k, validations) ==
    IF k > Len(tables) THEN validations
    ELSE LET t == tables[k]
         IN  IF I64Ge(t.size, CRITICAL_THRESHOLD)
             THEN PerTableValidations(tables, k + 1, Append(validations,
                     ValidationResult(<<"table_size_{}.{}", t.schema, t.table>>, "Critical",
                         "Table {}.{} is very large: {}. Consider partitioning or archiving.",
                         <<t.schema, t.table, format_bytes(t.size)>>)))
             ELSE IF I64Ge(t.size, WARN_THRESHOLD)
             THEN PerTableValidations(tables, k + 1, Append(validations,
                     ValidationResult(<<"table_size_{}.{}", t.schema, t.table>>, "Warn",
                         "Table {}.{} is large: {}. Monitor growth and consider optimization.",
                         <<t.schema, t.table, format_bytes(t.size)>>)))
             ELSE PerTableValidations(tables, k + 1, validations)

with_large_tables_always(validations) ==
    Append(validations,
        ValidationResult(<<"large_tables">>, "Ok",
            "No unusually large tables detected.", <<>>))

(* the end of validate_tables: the trailing Ok when only the total-size    *)
(* validation was produced                                                 *)
with_large_tables(validations) ==
    IF Len(validations) = 1
    THEN Append(validations,
            ValidationResult(<<"large_tables">>, "Ok",
                "No unusually large tables detected.", <<>>))
    ELSE validations

validate_tables_no_early_return(tables) ==
    with_large_tables(
        PerTableValidations(tables, 1,
            <<ValidationResult(<<"total_size">>, "Ok",
                "Total database size: {} across {} table(s)",
                <<format_bytes(SumSizes(tables, Len(tables))), Len(tables)>>)>>))

validate_tables(tables) ==
    IF tables = <<>>
    THEN <<ValidationResult(<<"table_count">>, "Ok", "No tables found in the database.", <<>>)>>
    ELSE with_large_tables(
            PerTableValidations(tables, 1,
                <<ValidationResult(<<"total_size">>, "Ok",
                    "Total database size: {} across {} table(s)",
                    <<format_bytes(SumSizes(tables, Len(tables))), Len(tables)>>)>>))

---------------------------------------------------------------------------
(* str::parse::<i64>() and str::parse::<f64>()                             *)

RECURSIVE MagFromDigits(_, _, _)
MagFromDigits(digits, i, acc) ==
    IF i > Len(digits) THEN acc
    ELSE MagFromDigits(digits, i + 1, MagMulAdd(acc, 10, DigitValue(digits[i])))

(* str::parse::<i64>().ok(): an optional sign, then one or more ASCII      *)
(* digits, the value within the i64 range                                  *)
parse_i64(v) ==
    LET signed == Len(v) >= 1 /\ v[1] \in {"+", "-"}
        digits == IF signed THEN Tail(v) ELSE v
    IN  IF digits = <<>> \/ (\E k \in DOMAIN digits : digits[k] \notin Digits)
        THEN None
        ELSE LET value == I64(signed /\ v[1] = "-", MagFromDigits(digits, 1, <<>>))
             IN  IF InI64Range(value) THEN Some(value) ELSE None

(* u8::to_ascii_lowercase on the letters of "infinity" and "nan" and 'e' *)
to_ascii_lowercase(c) ==
    CASE c = "I" -> "i" [] c = "N" -> "n" [] c = "F" -> "f" [] c = "T" -> "t"
      [] c = "Y" -> "y" [] c = "A" -> "a" [] c = "E" -> "e" [] OTHER -> c

(* the number of digits at the start of v[from..] *)
RECURSIVE DigitRun(_, _)
DigitRun(v, from) ==
    IF from <= Len(v) /\ v[from] \in Digits THEN 1 + DigitRun(v, from + 1) ELSE 0

RECURSIVE NatFromDigits(_, _, _)
NatFromDigits(digits, i, acc) ==
    IF i > Len(digits) THEN acc
    ELSE NatFromDigits(digits, i + 1, acc * 10 + DigitValue(digits[i]))

(* An f64 read from decimal text is its class, its sign and, when finite,  *)
(* the decimal mant * 10^exp it was read from (at most 9 digits are read   *)
(* in the model, which an f64 tells apart).                                *)
F64(class, neg, mant, exp) == [class |-> class, neg |-> neg, mant |-> mant, exp |-> exp]

(* str::parse::<f64>().ok().  The grammar of core::num::dec2flt:           *)
(*   Sign? ( 'inf' | 'infinity' | 'nan' | Number ), case-insensitive,      *)
(*   Number ::= ( Digit+ | Digit+ '.' Digit* | Digit* '.' Digit+ ) Exp?    *)
(*   Exp    ::= 'e' Sign? Digit+                                           *)
(* The parser is a chain of stages, each handing on what it has read.      *)

(* the digits of the exponent, which must end the text *)
ParseExponentDigits(body, neg, mantissa, n_frac, exp_neg, exp_from, n_exp) ==
    LET exp_value == NatFromDigits(SubSeq(body, exp_from, exp_from + n_exp - 1), 1, 0)
    IN  IF n_exp >= 1 /\ exp_from + n_exp - 1 = Len(body)
        THEN Some(F64("finite", neg, mantissa,
                      (IF exp_neg THEN -exp_value ELSE exp_value) - n_frac))
        ELSE None

(* the optional sign of the exponent, from is the position after the 'e' *)
ParseExponent(body, neg, mantissa, n_frac, from) ==
    LET exp_signed == from <= Len(body) /\ body[from] \in {"+", "-"}
        exp_from == IF exp_signed THEN from + 1 ELSE from
    IN  ParseExponentDigits(body, neg, mantissa, n_frac,
                            exp_signed /\ body[from] = "-", exp_from,
                            DigitRun(body, exp_from))

(* after n_int integer digits, n_dot dots (0 or 1) and n_frac fraction     *)
(* digits: the end of the text or an exponent                              *)
ParseAfterFraction(body, neg, n_int, n_dot, n_frac) ==
    LET after == n_int + n_dot + n_frac + 1
        mantissa == NatFromDigits(SubSeq(body, 1, n_int)
                                    \o SubSeq(body, n_int + 2, n_int + 1 + n_frac), 1, 0)
    IN  IF n_int + n_frac = 0 THEN None
        ELSE IF after <= Len(body) /\ to_ascii_lowercase(body[after]) = "e"
        THEN ParseExponent(body, neg, mantissa, n_frac, after + 1)
        ELSE IF after - 1 = Len(body)
        THEN Some(F64("finite", neg, mantissa, -n_frac))
        ELSE None

(* after n_int integer digits: an optional '.' and the fraction digits *)
ParseFraction(body, neg, n_int) ==
    LET has_dot == n_int + 1 <= Len(body) /\ body[n_int + 1] = "."
    IN  ParseAfterFraction(body, neg, n_int, IF has_dot THEN 1 ELSE 0,
                           IF has_dot THEN DigitRun(body, n_int + 2) ELSE 0)

(* the text after the sign *)
ParseUnsignedF64(body, neg) ==
    LET lower == [k \in DOMAIN body |-> to_ascii_lowercase(body[k])]
    IN  IF lower = <<"i", "n", "f">> \/ lower = <<"i", "n", "f", "i", "n", "i", "t", "y">>
        THEN Some(F64("inf", neg, 0, 0))
        ELSE IF lower = <<"n", "a", "n">>
        THEN Some(F64("nan", neg, 0, 0))
        ELSE ParseFraction(body, neg, DigitRun(body, 1))

parse_f64(v) ==
    LET signed == Len(v) >= 1 /\ v[1] \in {"+", "-"}
    IN  ParseUnsignedF64(IF signed THEN Tail(v) ELSE v, signed /\ v[1] = "-")

(* 10^n for 0 <= n <= 9 *)
RECURSIVE Pow10(_)
Pow10(n) == IF n = 0 THEN 1 ELSE 10 * Pow10(n - 1)

(* x > t / 10 as the f64 comparison decides it, for a literal t / 10 with  *)
(* t in 1..9: false for NaN, for negative values and for zero              *)
F64GtTenths(x, t) ==
    IF x.class = "nan" THEN FALSE
    ELSE IF x.class = "inf" THEN ~x.neg
    ELSE IF x.neg \/ x.mant = 0 THEN FALSE
    ELSE LET d == x.exp + 1
         IN  IF d >= 1 THEN TRUE
             ELSE IF d = 0 THEN x.mant > t
             ELSE IF -d >= 9 THEN FALSE
             ELSE x.mant > t * Pow10(-d)

---------------------------------------------------------------------------
(* i64 multiplication and division as the code uses them                   *)

MagTwo64 == <<0, 0, 0, 0, 0, 0, 16>>

(* m mod 2^64 *)
MagMod64(m) ==
    IF Len(m) < 7 THEN m
    ELSE MagNorm(SubSeq(m, 1, 6) \o <<m[7] % 16>>)

(* the i64 whose two's complement bit pattern is r, 0 <= r < 2^64 *)
I64FromBits(r) ==
    IF MagCmp(r, MagTwo63) >= 0 THEN I64(TRUE, MagSub(MagTwo64, r)) ELSE I64(FALSE, r)

(* the i64 with the same low 64 bits (two's complement) as the integer x *)
I64Wrap(x) ==
    LET low == MagMod64(x.mag)
    IN  I64FromBits(IF x.neg /\ low # <<>> THEN MagSub(MagTwo64, low) ELSE low)

(* a * f on i64 where the product wraps (overflow checks off) *)
wrapping_mul(a, f) == I64Wrap(I64MulSmall(a, f))

(* value * f1 * f2 * ..., multiplied from left to right *)
RECURSIVE wrapping_product(_, _)
wrapping_product(value, factors) ==
    IF factors = <<>> THEN value
    ELSE wrapping_product(wrapping_mul(value, Head(factors)), Tail(factors))

(* a / 1024^n on i64: the quotient is truncated towards zero *)
I64DivPow1024(a, n) == I64(a.neg, MagShiftRight(a.mag, n))

---------------------------------------------------------------------------
(* checks/vacuum_settings/check.rs.  settings is a function from the names *)
(* present to [value, unit], value a String and unit an Option<String>.    *)

VacuumSettingsCheck == [id |-> "vacuum_settings", name |-> "Vacuum Settings Check",
                        category |-> "performance"]

(* HashMap::get *)
get(settings, name) == IF name \in DOMAIN settings THEN Some(settings[name]) ELSE None

(* the factors the match on unit multiplies the value by *)
unit_factors(unit) ==
    IF unit = Some("kB") THEN <<1024>>
    ELSE IF unit = Some("MB") THEN <<1024, 1024>>
    ELSE IF unit = Some("GB") THEN <<1024, 1024, 1024>>
    ELSE IF unit = Some("ms") THEN <<>>
    ELSE IF unit = Some("s") THEN <<1000>>
    ELSE <<>>

parse_setting_value(setting, unit) ==
    LET parsed == parse_i64(setting)
    IN  IF ~parsed.some THEN None
        ELSE Some(wrapping_product(parsed.value, unit_factors(unit)))

(* Whether one of the multiplications of parse_setting_value leaves the    *)
(* i64 range.  A build without overflow checks wraps there, which is what  *)
(* wrapping_product computes; a build with overflow checks panics.         *)
RECURSIVE product_overflows(_, _)
(* p is the product so far, rest the factors still to come *)
product_overflows_after(p, rest) == ~InI64Range(p) \/ product_overflows(p, rest)

product_overflows(a, factors) ==
    IF factors = <<>> THEN FALSE
    ELSE product_overflows_after(I64MulSmall(a, Head(factors)), Tail(factors))

multiplication_overflows(setting, unit) ==
    LET parsed == parse_i64(setting)
    IN  parsed.some /\ product_overflows(parsed.value, unit_factors(unit))

(* the same for the entry of a settings map that get_setting_value reads *)
setting_overflows(settings, name) ==
    /\ name \in DOMAIN settings
    /\ multiplication_overflows(settings[name].value, settings[name].unit)

parse_float_setting(setting) == parse_f64(setting)

(* get_setting_value reading a text that does not parse as 0 *)
get_setting_value_unparsed_zero(settings, name) ==
    LET entry == get(settings, name)
    IN  IF entry.some
        THEN (IF parse_i64(entry.value.value).some
              THEN parse_setting_value(entry.value.value, entry.value.unit)
              ELSE Some(I64FromInt(0)))
        ELSE None

(* if let Some((s, unit)) = settings.get(name) followed by                 *)
(* if let Some(v) = self.parse_setting_value(s, unit.as_deref())           *)
get_setting_value(settings, name) ==
    LET entry == get(settings, name)
    IN  IF entry.some THEN parse_setting_value(entry.value.value, entry.value.unit)
        ELSE None

(* if let Some((s, _)) = settings.get(name) followed by                    *)
(* if let Some(v) = self.parse_float_setting(s)                            *)
get_float_setting(settings, name) ==
    LET entry == get(settings, name)
    IN  IF entry.some THEN parse_float_setting(entry.value.value) ELSE None

(* the body of the if let on analyze_factor *)
analyze_factor_validations(analyze_factor) ==
    IF F64GtTenths(analyze_factor, 1)
    THEN <<ValidationResult(<<"autovacuum_analyze_scale_factor">>, "Warn",
             "autovacuum_analyze_scale_factor is {}. Values > 0.1 may delay ANALYZE on large tables, affecting query planning.",
             <<analyze_factor>>)>>
    ELSE <<ValidationResult(<<"autovacuum_analyze_scale_factor">>, "Ok",
             "autovacuum_analyze_scale_factor is {} (optimal).", <<analyze_factor>>)>>

(* the body of the if let on vacuum_factor *)
vacuum_factor_validations(vacuum_factor) ==
    IF F64GtTenths(vacuum_factor, 2)
    THEN <<ValidationResult(<<"autovacuum_vacuum_scale_factor">>, "Warn",
             "autovacuum_vacuum_scale_factor is {}. Values > 0.2 may cause bloat in large tables.",
             <<vacuum_factor>>)>>
    ELSE IF F64GtTenths(vacuum_factor, 1)
    THEN <<ValidationResult(<<"autovacuum_vacuum_scale_factor">>, "Ok",
             "autovacuum_vacuum_scale_factor is {} (acceptable).", <<vacuum_factor>>)>>
    ELSE <<ValidationResult(<<"autovacuum_vacuum_scale_factor">>, "Ok",
             "autovacuum_vacuum_scale_factor is {} (optimal).", <<vacuum_factor>>)>>

check_autovacuum_scale_factors(settings) ==
    LET analyze_factor == get_float_setting(settings, "autovacuum_analyze_scale_factor")
        vacuum_factor == get_float_setting(settings, "autovacuum_vacuum_scale_factor")
    IN  (IF analyze_factor.some THEN analyze_factor_validations(analyze_factor.value)
         ELSE <<>>)
        \o (IF vacuum_factor.some THEN vacuum_factor_validations(vacuum_factor.value)
            ELSE <<>>)

workers_validations_ge_10(workers) ==
    IF I64Lt(workers, I64FromInt(3))
    THEN <<ValidationResult(<<"autovacuum_max_workers">>, "Warn",
             "autovacuum_max_workers is {}. Consider increasing to at least 3 for better concurrent vacuum performance.",
             <<workers>>)>>
    ELSE IF I64Ge(workers, I64FromInt(10))
    THEN <<ValidationResult(<<"autovacuum_max_workers">>, "Warn",
             "autovacuum_max_workers is {}. Very high values may cause resource contention.",
             <<workers>>)>>
    ELSE <<ValidationResult(<<"autovacuum_max_workers">>, "Ok",
             "autovacuum_max_workers is {} (optimal).", <<workers>>)>>

(* the body of the if let on workers *)
workers_validations(workers) ==
    IF I64Lt(workers, I64FromInt(3))
    THEN <<ValidationResult(<<"autovacuum_max_workers">>, "Warn",
             "autovacuum_max_workers is {}. Consider increasing to at least 3 for better concurrent vacuum performance.",
             <<workers>>)>>
    ELSE IF I64Gt(workers, I64FromInt(10))
    THEN <<ValidationResult(<<"autovacuum_max_workers">>, "Warn",
             "autovacuum_max_workers is {}. Very high values may cause resource contention.",
             <<workers>>)>>
    ELSE <<ValidationResult(<<"autovacuum_max_workers">>, "Ok",
             "autovacuum_max_workers is {} (optimal).", <<workers>>)>>

check_autovacuum_workers(settings) ==
    LET workers == get_setting_value(settings, "autovacuum_max_workers")
    IN  IF workers.some THEN workers_validations(workers.value) ELSE <<>>

maintenance_work_mem_validations_ge_2048(mem_mb) ==
    IF I64Lt(mem_mb, I64FromInt(64))
    THEN <<ValidationResult(<<"maintenance_work_mem">>, "Critical",
             "maintenance_work_mem is {} MB. This is too low and will significantly slow down VACUUM and index creation. Increase to at least 256 MB.",
             <<mem_mb>>)>>
    ELSE IF I64Lt(mem_mb, I64FromInt(256))
    THEN <<ValidationResult(<<"maintenance_work_mem">>, "Warn",
             "maintenance_work_mem is {} MB. Consider increasing to at least 256 MB for better maintenance performance.",
             <<mem_mb>>)>>
    ELSE IF I64Ge(mem_mb, I64FromInt(2048))
    THEN <<ValidationResult(<<"maintenance_work_mem">>, "Warn",
             "maintenance_work_mem is {} MB. Very high values (>2GB) may not provide additional benefits.",
             <<mem_mb>>)>>
    ELSE <<ValidationResult(<<"maintenance_work_mem">>, "Ok",
             "maintenance_work_mem is {} MB (optimal).", <<mem_mb>>)>>

(* the if chain of check_maintenance_work_mem on mem_mb *)
maintenance_work_mem_validations(mem_mb) ==
    IF I64Lt(mem_mb, I64FromInt(64))
    THEN <<ValidationResult(<<"maintenance_work_mem">>, "Critical",
             "maintenance_work_mem is {} MB. This is too low and will significantly slow down VACUUM and index creation. Increase to at least 256 MB.",
             <<mem_mb>>)>>
    ELSE IF I64Lt(mem_mb, I64FromInt(256))
    THEN <<ValidationResult(<<"maintenance_work_mem">>, "Warn",
             "maintenance_work_mem is {} MB. Consider increasing to at least 256 MB for better maintenance performance.",
             <<mem_mb>>)>>
    ELSE IF I64Gt(mem_mb, I64FromInt(2048))
    THEN <<ValidationResult(<<"maintenance_work_mem">>, "Warn",
             "maintenance_work_mem is {} MB. Very high values (>2GB) may not provide additional benefits.",
             <<mem_mb>>)>>
    ELSE <<ValidationResult(<<"maintenance_work_mem">>, "Ok",
             "maintenance_work_mem is {} MB (optimal).", <<mem_mb>>)>>

check_maintenance_work_mem(settings) ==
    LET mem_bytes == get_setting_value(settings, "maintenance_work_mem")
    IN  IF mem_bytes.some
        THEN maintenance_work_mem_validations(I64DivPow1024(mem_bytes.value, 2))
        ELSE <<>>

cost_delay_validations_ge_10(delay_ms) ==
    IF I64Ge(delay_ms, I64FromInt(10))
    THEN <<ValidationResult(<<"vacuum_cost_delay">>, "Warn",
             "vacuum_cost_delay is {} ms. High values slow down vacuum. Consider reducing if vacuum is not keeping up.",
             <<delay_ms>>)>>
    ELSE <<ValidationResult(<<"vacuum_cost_delay">>, "Ok",
             "vacuum_cost_delay is {} ms (acceptable).", <<delay_ms>>)>>

(* the body of the if let on delay_ms *)
cost_delay_validations(delay_ms) ==
    IF I64Gt(delay_ms, I64FromInt(10))
    THEN <<ValidationResult(<<"vacuum_cost_delay">>, "Warn",
             "vacuum_cost_delay is {} ms. High values slow down vacuum. Consider reducing if vacuum is not keeping up.",
             <<delay_ms>>)>>
    ELSE <<ValidationResult(<<"vacuum_cost_delay">>, "Ok",
             "vacuum_cost_delay is {} ms (acceptable).", <<delay_ms>>)>>

(* the body of the if let on limit *)
cost_limit_validations(limit) ==
    IF I64Lt(limit, I64FromInt(200))
    THEN <<ValidationResult(<<"vacuum_cost_limit">>, "Warn",
             "vacuum_cost_limit is {}. Low values throttle vacuum too much. Consider increasing to at least 200.",
             <<limit>>)>>
    ELSE <<ValidationResult(<<"vacuum_cost_limit">>, "Ok",
             "vacuum_cost_limit is {} (acceptable).", <<limit>>)>>

check_vacuum_cost_settings(settings) ==
    LET delay_ms == get_setting_value(settings, "vacuum_cost_delay")
        limit == get_setting_value(settings, "vacuum_cost_limit")
    IN  (IF delay_ms.some THEN cost_delay_validations(delay_ms.value) ELSE <<>>)
        \o (IF limit.some THEN cost_limit_validations(limit.value) ELSE <<>>)

work_mem_validations_le_4(mem_mb) ==
    IF ~I64Gt(mem_mb, I64FromInt(4))
    THEN <<ValidationResult(<<"work_mem">>, "Warn",
             "work_mem is {} MB. This is very low and may cause excessive disk sorts. Consider increasing to at least 4 MB.",
             <<mem_mb>>)>>
    ELSE IF I64Gt(mem_mb, I64FromInt(1024))
    THEN <<ValidationResult(<<"work_mem">>, "Warn",
             "work_mem is {} MB. Very high values can cause memory issues with many concurrent connections. Monitor memory usage carefully.",
             <<mem_mb>>)>>
    ELSE <<ValidationResult(<<"work_mem">>, "Ok",
             "work_mem is {} MB (acceptable).", <<mem_mb>>)>>

(* the if chain of check_work_mem on mem_mb *)
work_mem_validations(mem_mb) ==
    IF I64Lt(mem_mb, I64FromInt(4))
    THEN <<ValidationResult(<<"work_mem">>, "Warn",
             "work_mem is {} MB. This is very low and may cause excessive disk sorts. Consider increasing to at least 4 MB.",
             <<mem_mb>>)>>
    ELSE IF I64Gt(mem_mb, I64FromInt(1024))
    THEN <<ValidationResult(<<"work_mem">>, "Warn",
             "work_mem is {} MB. Very high values can cause memory issues with many concurrent connections. Monitor memory usage carefully.",
             <<mem_mb>>)>>
    ELSE <<ValidationResult(<<"work_mem">>, "Ok",
             "work_mem is {} MB (acceptable).", <<mem_mb>>)>>

check_work_mem(settings) ==
    LET mem_bytes == get_setting_value(settings, "work_mem")
    IN  IF mem_bytes.some THEN work_mem_validations(I64DivPow1024(mem_bytes.value, 2))
        ELSE <<>>

(* with_fallback pushing the fallback whatever was produced *)
with_fallback_always(validations) ==
    validations \o <<ValidationResult(<<"vacuum_settings">>, "Ok",
                       "All vacuum-related settings are within acceptable ranges.", <<>>)>>

(* the end of validate_settings: the fallback when nothing was produced *)
with_fallback(validations) ==
    IF validations = <<>>
    THEN <<ValidationResult(<<"vacuum_settings">>, "Ok",
             "All vacuum-related settings are within acceptable ranges.", <<>>)>>
    ELSE validations

validate_settings(settings) ==
    with_fallback(check_autovacuum_scale_factors(settings)
                    \o check_autovacuum_workers(settings)
                    \o check_maintenance_work_mem(settings)
                    \o check_vacuum_cost_settings(settings)
                    \o check_work_mem(settings))

---------------------------------------------------------------------------
(* checks/mod.rs: the table bloat check.  A timestamp is a number of half  *)
(* days since an epoch, a percentage an f64 as read from a decimal.        *)

TableBloatCheck == [id |-> "table_bloat", name |-> "Table Bloat", category |-> "storage"]

units == <<"B", "KB", "MB", "GB", "TB", "PB", "EB">>

(* the number of bits of a digit and of a magnitude *)
RECURSIVE BitsOfDigit(_)
BitsOfDigit(d) == IF d = 0 THEN 0 ELSE 1 + BitsOfDigit(d \div 2)

MagBits(m) == IF m = <<>> THEN 0 ELSE 10 * (Len(m) - 1) + BitsOfDigit(m[Len(m)])

(* 2^n for 0 <= n <= 10 *)
RECURSIVE Pow2(_)
Pow2(n) == IF n = 0 THEN 1 ELSE 2 * Pow2(n - 1)

(* a magnitude of more than 53 bits rounded to 53 bits, ties to even: d is *)
(* the number of bits dropped, 1 <= d <= 10, all of them in the digit m[1] *)
RoundBits(m, d) ==
    LET ulp == Pow2(d)
        low == m[1] % ulp
        kept_odd == IF d = 10 THEN m[2] % 2 = 1 ELSE (m[1] \div ulp) % 2 = 1
        down == <<m[1] - low>> \o Tail(m)
    IN  IF 2 * low > ulp \/ (2 * low = ulp /\ kept_odd)
        THEN MagAdd(down, MagFromNat(ulp))
        ELSE down

(* i64::abs without overflow checks: i64::MIN stays i64::MIN *)
abs(bytes) == IF bytes.neg /\ bytes.mag # MagTwo63 THEN I64(FALSE, bytes.mag) ELSE bytes

(* bytes as f64: the integer nearest to it with 53 significant bits *)
as_f64(bytes) ==
    IF MagBits(bytes.mag) <= 53 THEN bytes
    ELSE [neg |-> bytes.neg, mag |-> RoundBits(bytes.mag, MagBits(bytes.mag) - 53)]

(* Whether log2 of the f64 x, rounded to nearest, is the multiple of ten   *)
(* above it although x is below that power of 1024.  log2(2^e - g) is      *)
(* e - g / (2^e ln 2), and it rounds to e when that offset is below half   *)
(* the spacing of the f64 under e: never under 10, 20, 30 and 40, for      *)
(* g <= 2 under 50 and for g <= 2839 under 60.                             *)
log2_rounds_up(mag) ==
    \/ MagBits(mag) = 50 /\ MagCmp(mag, <<1022, 1023, 1023, 1023, 1023>>) >= 0
    \/ MagBits(mag) = 60 /\ MagCmp(mag, <<233, 1021, 1023, 1023, 1023, 1023>>) >= 0

(* (bytes.log2() / 10.0).floor() as usize: log2 of a negative number is    *)
(* NaN, which the cast turns into 0                                        *)
unit_index(x) ==
    IF x.neg THEN 0
    ELSE IF log2_rounds_up(x.mag) THEN (MagBits(x.mag) - 1) \div 10 + 1
    ELSE (MagBits(x.mag) - 1) \div 10

(* the format! of bytes_to_human_readable: converted_value is the f64      *)
(* x / 1024^i, kept as the numerator and the power                         *)
human_readable(negative, x, i) ==
    [fmt |-> "{sign}{converted_value:.2} {}",
     args |-> <<IF negative THEN "-" ELSE "",
                [neg |-> x.neg, mag |-> x.mag, pow |-> i],
                units[(IF i < Len(units) - 1 THEN i ELSE Len(units) - 1) + 1]>>]

(* human_readable with the index computed from x *)
human_readable_of(negative, x) == human_readable(negative, x, unit_index(x))

bytes_to_human_readable(bytes) ==
    IF bytes.mag = <<>> THEN [fmt |-> "0 B", args |-> <<>>]
    ELSE human_readable_of(bytes.neg, as_f64(abs(bytes)))

(* bytes.abs() in a build with overflow checks panics on i64::MIN *)
abs_overflows(bytes) == bytes.neg /\ bytes.mag = MagTwo63

TableBloatInfo(schema_name, table_name, table_size, bloat_size, bloat_percentage, last_autovacuum, last_autoanalyze) ==
    [schema_name |-> schema_name, table_name |-> table_name, table_size |-> table_size,
     bloat_size |-> bloat_size, bloat_percentage |-> bloat_percentage,
     last_autovacuum |-> last_autovacuum, last_autoanalyze |-> last_autoanalyze]

(* fetch_table_bloat_data.  A table of the catalog as the query reads it:  *)
(* pg_class, pg_namespace, pg_relation_size, the summed widths of the      *)
(* column statistics (0 without statistics) and pg_stat_user_tables.       *)
CatalogRow(nspname, relname, relkind, reltuples, relation_size, avg_width_sum, last_autovacuum, last_autoanalyze) ==
    [nspname |-> nspname, relname |-> relname, relkind |-> relkind,
     reltuples |-> reltuples, relation_size |-> relation_size,
     avg_width_sum |-> avg_width_sum,
     last_autovacuum |-> last_autovacuum, last_autoanalyze |-> last_autoanalyze]

(* the WHERE of the table_data expression *)
in_table_data(c) ==
    /\ c.relkind = "r"
    /\ c.nspname \notin {"pg_catalog", "information_schema", "pg_toast"}
    /\ c.nspname = "public"
    /\ c.reltuples > 0
    /\ c.relation_size > 0

GREATEST(a, b) == IF a >= b THEN a ELSE b

(* bloat_size_bytes estimating the ideal size without the tuple overhead *)
bloat_size_bytes_without_overhead(td) ==
    IF td.reltuples > 0 /\ td.avg_width_sum > 0
    THEN GREATEST(0, td.relation_size - td.reltuples * td.avg_width_sum)
    ELSE 0

(* the CASE that is bloat_size_bytes *)
bloat_size_bytes(td) ==
    IF td.reltuples > 0 /\ td.avg_width_sum > 0
    THEN GREATEST(0, td.relation_size - td.reltuples * (td.avg_width_sum + 35))
    ELSE 0

(* ROUND(a / b * 100, 2) on numeric, in hundredths: halves away from zero, *)
(* for a >= 0 and b > 0                                                    *)
ROUND_percent(a, b) == (2 * 10000 * a + b) \div (2 * b)

(* the CASE that is bloat_percentage, in hundredths *)
bloat_percentage(td, bloat) ==
    IF td.relation_size > 0 /\ td.reltuples > 0 /\ td.avg_width_sum > 0
    THEN ROUND_percent(bloat, td.relation_size)
    ELSE 0

(* the WHERE of the outer SELECT *)
has_bloat(td) == td.relation_size > 0 /\ bloat_size_bytes(td) > 0

(* the TableBloatInfo built from the row of a table *)
bloat_info(td, bloat) ==
    TableBloatInfo(td.nspname, td.relname, I64FromInt(td.relation_size),
                   I64FromInt(bloat),
                   F64("finite", FALSE, bloat_percentage(td, bloat), -2),
                   td.last_autovacuum, td.last_autoanalyze)

(* the indexes of the tables of the catalog the query returns a row for *)
selected(catalog) ==
    {k \in DOMAIN catalog : in_table_data(catalog[k]) /\ has_bloat(catalog[k])}

(* ORDER BY bloat_size_bytes DESC: every order of the selected tables in   *)
(* which the sizes do not increase, rows of equal size in any order        *)
orderings(catalog, chosen) ==
    {order \in [1..Cardinality(chosen) -> chosen] :
        /\ \A i, j \in DOMAIN order : i # j => order[i] # order[j]
        /\ \A i, j \in DOMAIN order :
              i < j => bloat_size_bytes(catalog[order[i]])
                         >= bloat_size_bytes(catalog[order[j]])}

(* what fetch_table_bloat_data can return for a catalog once the query     *)
(* has run                                                                 *)
fetch_table_bloat_data(catalog) ==
    {[k \in DOMAIN order |->
        bloat_info(catalog[order[k]], bloat_size_bytes(catalog[order[k]]))] :
            order \in orderings(catalog, selected(catalog))}

(* Duration::days, in the half days of the model *)
days(n) == 2 * n

(* t.date() *)
date(t) == t \div days(1)

(* x > n on f64 for a small integer literal n and a decimal x of at most   *)
(* 9 digits: false for NaN                                                 *)
F64GtInt(x, n) ==
    IF x.class = "nan" THEN FALSE
    ELSE IF x.class = "inf" THEN ~x.neg
    ELSE IF x.neg \/ x.mant = 0 THEN FALSE
    ELSE IF x.exp >= 0 THEN x.mant * Pow10(x.exp) > n
    ELSE x.mant > n * Pow10(-x.exp)

(* is_stale taking a timestamp of exactly five days ago as stale *)
is_stale_at_five_days(t, five_days_ago) ==
    IF t.some THEN t.value <= five_days_ago ELSE TRUE

(* map_or(true, |t| t < five_days_ago) *)
is_stale(t, five_days_ago) == IF t.some THEN t.value < five_days_ago ELSE TRUE

(* map_or_else(|| "never".to_string(), |t| t.date().to_string()) *)
date_or_never(t) == IF t.some THEN Some(date(t.value)) ELSE None

(* the validation pushed for a flagged table *)
bloat_validation(info) ==
    ValidationResult(<<"{}.{}", info.schema_name, info.table_name>>, "Warn",
        "Table '{}' has high bloat ({:.2}%, {}) and may need maintenance. Last autovacuum: {}, last autoanalyze: {}.",
        <<<<"{}.{}", info.schema_name, info.table_name>>, info.bloat_percentage,
          bytes_to_human_readable(info.bloat_size),
          date_or_never(info.last_autovacuum), date_or_never(info.last_autoanalyze)>>)

(* the body of the loop of run for one table *)
bloat_validations_of(info, five_days_ago) ==
    LET is_bloated == F64GtInt(info.bloat_percentage, 60)
        is_autovacuum_stale == is_stale(info.last_autovacuum, five_days_ago)
        is_autoanalyze_stale == is_stale(info.last_autoanalyze, five_days_ago)
    IN  IF is_bloated /\ (is_autovacuum_stale \/ is_autoanalyze_stale)
        THEN <<bloat_validation(info)>>
        ELSE <<>>

(* the loop of run over bloat_data[k..] *)
RECURSIVE bloat_validations(_, _, _)
bloat_validations(bloat_data, k, five_days_ago) ==
    IF k > Len(bloat_data) THEN <<>>
    ELSE bloat_validations_of(bloat_data[k], five_days_ago)
           \o bloat_validations(bloat_data, k + 1, five_days_ago)

(* TableBloatCheck::run once fetch_table_bloat_data has returned           *)
(* bloat_data, now being OffsetDateTime::now_utc()                         *)
TableBloatCheck_run(bloat_data, now) ==
    CheckResult(TableBloatCheck, bloat_validations(bloat_data, 1, now - days(5)))

---------------------------------------------------------------------------
(* What the queries of the checks can return in a run.                     *)

VersionQueryResults ==
    { <<"P", " ", "9", ".", "6">>, <<"P", " ", "1", "1", ".", "5">>,
      <<"P", " ", "1", "5", ".", "3">>, <<"P">> }

Table(schema, name, size) == [schema |-> schema, table |-> name, size |-> size]

TableSizesQueryResults ==
    { <<>>,
      <<Table("public", "users", MB)>>,
      <<Table("public", "users", MB), Table("public", "events", I64MulSmall(GB, 15))>>,
      <<Table("public", "events", I64MulSmall(GB, 60)), Table("public", "users", MB)>> }

SettingRow(name, setting, unit) == [name |-> name, setting |-> setting, unit |-> unit]

VacuumSettingsQueryResults ==
    { <<>>,
      <<SettingRow("maintenance_work_mem", <<"1", "6">>, Some("MB")),
        SettingRow("work_mem", <<"4">>, Some("MB"))>>,
      <<SettingRow("autovacuum_vacuum_scale_factor", <<"0", ".", "3">>, None),
        SettingRow("maintenance_work_mem", <<"2", "5", "6">>, Some("MB"))>>,
      <<SettingRow("autovacuum_max_workers", <<"3">>, None),
        SettingRow("vacuum_cost_delay", <<"2">>, Some("ms")),
        SettingRow("work_mem", <<"x">>, Some("kB"))>> }

---------------------------------------------------------------------------
(* Check::run of the three checks, given the rows their query returned *)

VersionCheck_run(version_string) ==
    CheckResult(VersionCheck, validate_version(version_string))

TableSizesCheck_run(rows) == CheckResult(TableSizesCheck, validate_tables(rows))

(* settings.insert(name, (setting, unit)) for every row, in order *)
RECURSIVE InsertRows(_, _)
InsertRows(rows, k) ==
    IF k = 0 THEN <<>>
    ELSE LET before == InsertRows(rows, k - 1)
             row == rows[k]
         IN  [n \in DOMAIN before \cup {row.name} |->
                 IF n = row.name THEN [value |-> row.setting, unit |-> row.unit]
                 ELSE before[n]]

VacuumSettingsCheck_run(rows) ==
    CheckResult(VacuumSettingsCheck, validate_settings(InsertRows(rows, Len(rows))))

---------------------------------------------------------------------------
(* main.rs and output.rs *)

(* the bound on the number of values of one of --include, --exclude,       *)
(* --categories                                                            *)
MaxCliValues == 1

CheckIds == {"pg_version", "table_sizes", "vacuum_settings", "table_bloat"}

CliCategories == {"settings", "storage", "performance", "indexes"}

(* an absent option, or its one or more comma-separated values *)
CliLists(universe) ==
    {None} \cup {Some(v) : v \in SeqsUpTo(universe, MaxCliValues) \ {<<>>}}

(* cli.rs Cli: the run command carries the RunArgs lists, check-bloat      *)
(* carries none                                                            *)
CliArgs ==
    {[command |-> "run", include |-> i, exclude |-> e, categories |-> c] :
        i \in CliLists(CheckIds), e \in CliLists(CheckIds), c \in CliLists(CliCategories)}
    \cup {[command |-> "check-bloat", include |-> None, exclude |-> None,
           categories |-> None]}

all_checks == <<VersionCheck, TableSizesCheck, VacuumSettingsCheck>>

(* the rows the query of a check can return *)
QueryResults(check) ==
    CASE check.id = "pg_version" -> VersionQueryResults
      [] check.id = "table_sizes" -> TableSizesQueryResults
      [] check.id = "vacuum_settings" -> VacuumSettingsQueryResults

(* check.run(&client) through dyn Check, on a successful query *)
run(check, rows) ==
    CASE check.id = "pg_version" -> VersionCheck_run(rows)
      [] check.id = "table_sizes" -> TableSizesCheck_run(rows)
      [] check.id = "vacuum_settings" -> VacuumSettingsCheck_run(rows)

(* the loop of print_results that folds the status of results[k..] into    *)
(* overall_status                                                          *)
RECURSIVE FoldStatus(_, _, _)
FoldStatus(rs, k, overall) ==
    IF k > Len(rs) THEN overall
    ELSE LET check_status == overall_status(rs[k].validations)
         IN  IF check_status = "Critical" THEN FoldStatus(rs, k + 1, "Critical")
             ELSE IF check_status = "Warn" /\ overall # "Critical"
             THEN FoldStatus(rs, k + 1, "Warn")
             ELSE FoldStatus(rs, k + 1, overall)

RECURSIVE FoldStatusLastWins(_, _, _)
FoldStatusLastWins(rs, k, overall) ==
    IF k > Len(rs) THEN overall
    ELSE LET check_status == overall_status(rs[k].validations)
         IN  IF check_status = "Critical" THEN FoldStatusLastWins(rs, k + 1, "Critical")
             ELSE IF check_status = "Warn"
             THEN FoldStatusLastWins(rs, k + 1, "Warn")
             ELSE FoldStatusLastWins(rs, k + 1, overall)

ExitCodeOf(status) ==
    CASE status = "Ok" -> 0 [] status = "Warn" -> 1 [] status = "Critical" -> 2

(* print_results: the exit code handed to std::process::exit *)
print_results_last_wins(rs) == ExitCodeOf(FoldStatusLastWins(rs, 1, "Ok"))

print_results(rs) == ExitCodeOf(FoldStatus(rs, 1, "Ok"))

(* the exit status of a main that returns Err *)
EXIT_FAILURE == 1

RunnerInit ==
    /\ pc = "connect"
    /\ args \in CliArgs
    /\ client = "none"
    /\ idx = 1
    /\ outcome = [k \in DOMAIN all_checks |-> "pending"]
    /\ executed = [i \in CheckIds |-> 0]
    /\ results = <<>>
    /\ errors = <<>>
    /\ reports = <<>>
    /\ exit_code = None

Init ==
    /\ RunnerInit
    /\ input = None
    /\ output = None

(* db::connect succeeds *)
ConnectOk ==
    /\ pc = "connect"
    /\ client' = "connected"
    /\ pc' = "checks"
    /\ UNCHANGED <<args, idx, outcome, executed, results, errors, reports, exit_code,
                   input, output>>

(* db::connect fails: the ? of main returns the error *)
ConnectErr_continue ==
    /\ pc = "connect"
    /\ client' = "failed"
    /\ pc' = "checks"
    /\ UNCHANGED <<args, idx, outcome, executed, results, errors, reports, exit_code,
                   input, output>>

ConnectErr ==
    /\ pc = "connect"
    /\ client' = "failed"
    /\ exit_code' = Some(EXIT_FAILURE)
    /\ pc' = "exited"
    /\ UNCHANGED <<args, idx, outcome, executed, results, errors, reports, input, output>>

(* one iteration of the for loop whose check is filtered out *)
SkipCheck ==
    /\ pc = "checks"
    /\ idx <= Len(all_checks)
    /\ ~should_run_check(args, all_checks[idx].id, all_checks[idx].category)
    /\ outcome' = [outcome EXCEPT ![idx] = "skipped"]
    /\ idx' = idx + 1
    /\ UNCHANGED <<pc, args, client, executed, results, errors, reports, exit_code,
                   input, output>>

(* one iteration whose check runs and returns Ok(result) *)
RunCheckOk_prepend ==
    /\ pc = "checks"
    /\ idx <= Len(all_checks)
    /\ LET check == all_checks[idx]
       IN  /\ should_run_check(args, check.id, check.category)
           /\ executed' = [executed EXCEPT ![check.id] = @ + 1]
           /\ \E rows \in QueryResults(check) :
                 results' = <<run(check, rows)>> \o results
    /\ outcome' = [outcome EXCEPT ![idx] = "ok"]
    /\ idx' = idx + 1
    /\ UNCHANGED <<pc, args, client, errors, reports, exit_code, input, output>>

RunCheckOk ==
    /\ pc = "checks"
    /\ idx <= Len(all_checks)
    /\ LET check == all_checks[idx]
       IN  /\ should_run_check(args, check.id, check.category)
           /\ executed' = [executed EXCEPT ![check.id] = @ + 1]
           /\ \E rows \in QueryResults(check) :
                 results' = Append(results, run(check, rows))
    /\ outcome' = [outcome EXCEPT ![idx] = "ok"]
    /\ idx' = idx + 1
    /\ UNCHANGED <<pc, args, client, errors, reports, exit_code, input, output>>

(* one iteration whose check runs and returns Err(e) *)
RunCheckErr_abort ==
    /\ pc = "checks"
    /\ idx <= Len(all_checks)
    /\ LET check == all_checks[idx]
       IN  /\ should_run_check(args, check.id, check.category)
           /\ executed' = [executed EXCEPT ![check.id] = @ + 1]
           /\ errors' = Append(errors, check.name)
    /\ outcome' = [outcome EXCEPT ![idx] = "err"]
    /\ exit_code' = Some(EXIT_FAILURE)
    /\ pc' = "exited"
    /\ UNCHANGED <<args, client, idx, results, reports, input, output>>

RunCheckErr_retry ==
    /\ pc = "checks"
    /\ idx <= Len(all_checks)
    /\ LET check == all_checks[idx]
       IN  /\ should_run_check(args, check.id, check.category)
           /\ executed' = [executed EXCEPT ![check.id] = @ + 1]
           /\ errors' = Append(errors, check.name)
    /\ outcome' = [outcome EXCEPT ![idx] = "err"]
    /\ idx' = IF executed[all_checks[idx].id] = 0 THEN idx ELSE idx + 1
    /\ UNCHANGED <<pc, args, client, results, reports, exit_code, input, output>>

(* RunCheckErr reporting the failure as a Critical result of the check *)
RunCheckErr_critical_result ==
    /\ pc = "checks"
    /\ idx <= Len(all_checks)
    /\ LET check == all_checks[idx]
       IN  /\ should_run_check(args, check.id, check.category)
           /\ executed' = [executed EXCEPT ![check.id] = @ + 1]
           /\ errors' = Append(errors, check.name)
           /\ results' = Append(results,
                  CheckResult(check, <<ValidationResult(<<"error">>, "Critical",
                                                        "Check failed", <<>>)>>))
    /\ outcome' = [outcome EXCEPT ![idx] = "err"]
    /\ idx' = idx + 1
    /\ UNCHANGED <<pc, args, client, reports, exit_code, input, output>>

RunCheckErr ==
    /\ pc = "checks"
    /\ idx <= Len(all_checks)
    /\ LET check == all_checks[idx]
       IN  /\ should_run_check(args, check.id, check.category)
           /\ executed' = [executed EXCEPT ![check.id] = @ + 1]
           /\ errors' = Append(errors, check.name)
    /\ outcome' = [outcome EXCEPT ![idx] = "err"]
    /\ idx' = idx + 1
    /\ UNCHANGED <<pc, args, client, results, reports, exit_code, input, output>>

(* after the loop: output::print_results(results), which ends the process *)
PrintResults ==
    /\ pc = "checks"
    /\ idx > Len(all_checks)
    /\ reports' = Append(reports, results)
    /\ exit_code' = Some(print_results(results))
    /\ pc' = "exited"
    /\ UNCHANGED <<args, client, idx, outcome, executed, results, errors, input, output>>

Next ==
    \/ ConnectOk
    \/ ConnectErr
    \/ SkipCheck
    \/ RunCheckOk
    \/ RunCheckErr
    \/ PrintResults

Spec == Init /\ [][Next]_vars

---------------------------------------------------------------------------
(* Evaluation of one function on its own: the argument is drawn in the     *)
(* initial state, the call stores the return value.  The runner is idle.   *)

RunnerIdle ==
    /\ args = None
    /\ client = "none"
    /\ idx = 1
    /\ outcome = <<>>
    /\ executed = <<>>
    /\ results = <<>>
    /\ errors = <<>>
    /\ reports = <<>>
    /\ exit_code = None

(* the bound on the number of validations of a CheckResult *)
MaxValidations == 4

ValidationsInputs ==
    SeqsUpTo({ValidationResult(<<"check">>, status, "message", <<>>) : status \in CheckStatus},
             MaxValidations)

InitOverallStatus ==
    /\ pc = "call"
    /\ input \in ValidationsInputs
    /\ output = None
    /\ RunnerIdle

Call_overall_status ==
    /\ pc = "call"
    /\ output' = overall_status(input)
    /\ pc' = "return"
    /\ UNCHANGED <<input, runner_vars>>

NextOverallStatus == Call_overall_status

SpecOverallStatus == InitOverallStatus /\ [][NextOverallStatus]_vars

(* the bound on the length of a list of RunArgs *)
MaxListLen == 2

FilterIds == {"pg_version", "table_sizes"}

FilterCategories == {"settings", "storage"}

(* Option<Vec<String>>: absent, or a list that may be empty *)
OptionLists(universe) == {None} \cup {Some(v) : v \in SeqsUpTo(universe, MaxListLen)}

InitFilter ==
    /\ pc = "call"
    /\ input \in [self : [include : OptionLists(FilterIds),
                          exclude : OptionLists(FilterIds),
                          categories : OptionLists(FilterCategories)],
                  check_id : FilterIds,
                  category : FilterCategories]
    /\ output = None
    /\ RunnerIdle

Call_should_run_check ==
    /\ pc = "call"
    /\ output' = should_run_check(input.self, input.check_id, input.category)
    /\ pc' = "return"
    /\ UNCHANGED <<input, runner_vars>>

NextFilter == Call_should_run_check

SpecFilter == InitFilter /\ [][NextFilter]_vars

(* the bound on the length of a version string *)
MaxVersionLen == 4

VersionAlphabet == {"P", " ", ".", "-", "0", "1", "2", "9"}

VersionExamples ==
    { <<"P", " ", "1", "5", ".", "3", " ", "o", "n">>,
      <<"P", " ", "9", ".", "6", ".", "2", "4">>,
      <<"P", " ", "1", "1", ".", "5">>,
      <<"P", " ", "2", "1", "4", "7", "4", "8", "3", "6", "4", "8", ".", "0">>,
      <<"I", "n", "v", "a", "l", "i", "d", " ", "v", "e", "r", "s", "i", "o", "n">> }

InitVersion ==
    /\ pc = "call"
    /\ input \in SeqsUpTo(VersionAlphabet, MaxVersionLen) \cup VersionExamples
    /\ output = None
    /\ RunnerIdle

Call_validate_version ==
    /\ pc = "call"
    /\ output' = validate_version(input)
    /\ pc' = "return"
    /\ UNCHANGED <<input, runner_vars>>

NextVersion == Call_validate_version

SpecVersion == InitVersion /\ [][NextVersion]_vars

(* the bound on the number of tables of a list *)
MaxTables == 3

(* sizes around the two thresholds: 0, 10 GiB - 1, 10 GiB, 50 GiB - 1,     *)
(* 50 GiB and 1 TiB                                                        *)
TableInputs ==
    { Table("public", "empty", I64FromInt(0)),
      Table("public", "small", I64Add(WARN_THRESHOLD, I64FromInt(-1))),
      Table("public", "users", WARN_THRESHOLD),
      Table("audit", "users", WARN_THRESHOLD),
      Table("public", "orders", I64Add(CRITICAL_THRESHOLD, I64FromInt(-1))),
      Table("public", "events", CRITICAL_THRESHOLD),
      Table("public", "logs", TB) }

InitTables ==
    /\ pc = "call"
    /\ input \in SeqsUpTo(TableInputs, MaxTables)
    /\ output = None
    /\ RunnerIdle

Call_validate_tables ==
    /\ pc = "call"
    /\ output' = validate_tables(input)
    /\ pc' = "return"
    /\ UNCHANGED <<input, runner_vars>>

NextTables == Call_validate_tables

SpecTables == InitTables /\ [][NextTables]_vars

(* the bound on the length of the text of a setting *)
MaxSettingLen == 2

SettingAlphabet == {"-", "0", "1", "6", "9", "x"}

(* the values of the tests, the values next to the thresholds of the       *)
(* checks and the values next to the ends of the i64 range                 *)
SettingExamples ==
    { <<"5">>,
      <<"+", "5">>,
      <<"4", "2">>,
      <<"6", "4">>,
      <<"1", "0", "0">>,
      <<"2">>,
      <<"3">>,
      <<"4">>,
      <<"1", "6">>,
      <<"6", "3">>,
      <<"2", "5", "5">>,
      <<"2", "5", "6">>,
      <<"1", "0", "2", "4">>,
      <<"1", "0", "2", "5">>,
      <<"2", "0", "4", "8">>,
      <<"2", "0", "4", "9">>,
      <<"1", "9", "9">>,
      <<"2", "0", "0">>,
      <<"2", "0">>,
      <<"6", "5", "5", "3", "5">>,
      <<"6", "5", "5", "3", "6">>,
      <<"8", "5", "8", "9", "9", "3", "4", "5", "9", "2">>,
      <<"9", "0", "0", "7", "1", "9", "9", "2", "5", "4", "7", "4", "0", "9", "9", "1">>,
      <<"9", "0", "0", "7", "1", "9", "9", "2", "5", "4", "7", "4", "0", "9", "9", "2">>,
      <<"9", "2", "2", "3", "3", "7", "2", "0", "3", "6", "8", "5", "4", "7", "7", "5", "8", "0", "7">>,
      <<"9", "2", "2", "3", "3", "7", "2", "0", "3", "6", "8", "5", "4", "7", "7", "5", "8", "0", "8">>,
      <<"-", "9", "2", "2", "3", "3", "7", "2", "0", "3", "6", "8", "5", "4", "7", "7", "5", "8", "0", "8">>,
      <<"-", "9", "2", "2", "3", "3", "7", "2", "0", "3", "6", "8", "5", "4", "7", "7", "5", "8", "0", "9">> }

SettingTexts == SeqsUpTo(SettingAlphabet, MaxSettingLen) \cup SettingExamples

(* the units of pg_settings the match distinguishes, one it does not, none *)
SettingUnits == {None} \cup {Some(u) : u \in {"kB", "MB", "GB", "ms", "s", "min"}}

InitSettingValue ==
    /\ pc = "call"
    /\ input \in [setting : SettingTexts, unit : SettingUnits]
    /\ output = None
    /\ RunnerIdle

Call_parse_setting_value ==
    /\ pc = "call"
    /\ output' = parse_setting_value(input.setting, input.unit)
    /\ pc' = "return"
    /\ UNCHANGED <<input, runner_vars>>

(* the same call in a build with overflow checks: the multiplication panics *)
Panic_parse_setting_value ==
    /\ pc = "call"
    /\ multiplication_overflows(input.setting, input.unit)
    /\ pc' = "panic"
    /\ UNCHANGED <<input, output, runner_vars>>

NextSettingValue == Call_parse_setting_value \/ Panic_parse_setting_value

SpecSettingValue == InitSettingValue /\ [][NextSettingValue]_vars

(* a settings map, always a function on the names present *)
SettingValues == [value : SettingTexts, unit : SettingUnits]

NoSettings == <<>>

WithSetting(settings, name, v) ==
    [n \in DOMAIN settings \cup {name} |-> IF n = name THEN v ELSE settings[n]]

(* the maps of one setting, alone and next to a setting of another name *)
OneSettingInputs(name, other) ==
    {NoSettings}
      \cup {WithSetting(NoSettings, name, v) : v \in SettingValues}
      \cup {WithSetting(WithSetting(NoSettings, name, v), other,
                        [value |-> <<"4">>, unit |-> Some("MB")]) : v \in SettingValues}

InitMaintenanceWorkMem ==
    /\ pc = "call"
    /\ input \in OneSettingInputs("maintenance_work_mem", "work_mem")
    /\ output = None
    /\ RunnerIdle

Call_check_maintenance_work_mem ==
    /\ pc = "call"
    /\ output' = check_maintenance_work_mem(input)
    /\ pc' = "return"
    /\ UNCHANGED <<input, runner_vars>>

(* the same call in a build with overflow checks: the multiplication panics *)
Panic_check_maintenance_work_mem ==
    /\ pc = "call"
    /\ setting_overflows(input, "maintenance_work_mem")
    /\ pc' = "panic"
    /\ UNCHANGED <<input, output, runner_vars>>

NextMaintenanceWorkMem == Call_check_maintenance_work_mem \/ Panic_check_maintenance_work_mem

SpecMaintenanceWorkMem == InitMaintenanceWorkMem /\ [][NextMaintenanceWorkMem]_vars

InitWorkMem ==
    /\ pc = "call"
    /\ input \in OneSettingInputs("work_mem", "maintenance_work_mem")
    /\ output = None
    /\ RunnerIdle

Call_check_work_mem ==
    /\ pc = "call"
    /\ output' = check_work_mem(input)
    /\ pc' = "return"
    /\ UNCHANGED <<input, runner_vars>>

(* the same call in a build with overflow checks: the multiplication panics *)
Panic_check_work_mem ==
    /\ pc = "call"
    /\ setting_overflows(input, "work_mem")
    /\ pc' = "panic"
    /\ UNCHANGED <<input, output, runner_vars>>

NextWorkMem == Call_check_work_mem \/ Panic_check_work_mem

SpecWorkMem == InitWorkMem /\ [][NextWorkMem]_vars

InitWorkers ==
    /\ pc = "call"
    /\ input \in OneSettingInputs("autovacuum_max_workers", "work_mem")
    /\ output = None
    /\ RunnerIdle

Call_check_autovacuum_workers ==
    /\ pc = "call"
    /\ output' = check_autovacuum_workers(input)
    /\ pc' = "return"
    /\ UNCHANGED <<input, runner_vars>>

(* the same call in a build with overflow checks: the multiplication panics *)
Panic_check_autovacuum_workers ==
    /\ pc = "call"
    /\ setting_overflows(input, "autovacuum_max_workers")
    /\ pc' = "panic"
    /\ UNCHANGED <<input, output, runner_vars>>

NextWorkers == Call_check_autovacuum_workers \/ Panic_check_autovacuum_workers

SpecWorkers == InitWorkers /\ [][NextWorkers]_vars

(* a map of up to two settings: each name absent (None) or present *)
TwoSettings(name1, v1, name2, v2) ==
    LET first == IF v1.some THEN WithSetting(NoSettings, name1, v1.value) ELSE NoSettings
    IN  IF v2.some THEN WithSetting(first, name2, v2.value) ELSE first

OptionalSettingValues == {None} \cup {Some(v) : v \in SettingValues}

CostDelayExamples ==
    { None,
      Some([value |-> <<"1", "0">>, unit |-> Some("ms")]),
      Some([value |-> <<"1", "1">>, unit |-> Some("ms")]),
      Some([value |-> <<"1">>, unit |-> Some("s")]),
      Some([value |-> <<"x">>, unit |-> Some("ms")]) }

CostLimitExamples ==
    { None,
      Some([value |-> <<"1", "9", "9">>, unit |-> None]),
      Some([value |-> <<"2", "0", "0">>, unit |-> None]),
      Some([value |-> <<"x">>, unit |-> None]) }

(* every delay with the limits of the examples, and the other way round *)
CostSettingsInputs ==
    {TwoSettings("vacuum_cost_delay", d, "vacuum_cost_limit", l) :
        d \in OptionalSettingValues, l \in CostLimitExamples}
      \cup {TwoSettings("vacuum_cost_delay", d, "vacuum_cost_limit", l) :
                d \in CostDelayExamples, l \in OptionalSettingValues}

InitCostSettings ==
    /\ pc = "call"
    /\ input \in CostSettingsInputs
    /\ output = None
    /\ RunnerIdle

Call_check_vacuum_cost_settings ==
    /\ pc = "call"
    /\ output' = check_vacuum_cost_settings(input)
    /\ pc' = "return"
    /\ UNCHANGED <<input, runner_vars>>

(* the same call in a build with overflow checks: the multiplication panics *)
Panic_check_vacuum_cost_settings ==
    /\ pc = "call"
    /\ (\/ setting_overflows(input, "vacuum_cost_delay")
        \/ setting_overflows(input, "vacuum_cost_limit"))
    /\ pc' = "panic"
    /\ UNCHANGED <<input, output, runner_vars>>

NextCostSettings == Call_check_vacuum_cost_settings \/ Panic_check_vacuum_cost_settings

SpecCostSettings == InitCostSettings /\ [][NextCostSettings]_vars

(* the bound on the length of the text of a scale factor *)
MaxFactorLen == 3

FactorAlphabet == {"0", "1", "2", ".", "-", "e"}

(* the values of the tests, values next to 0.1 and 0.2 in several          *)
(* notations, and the texts of infinities and NaN that the parser accepts  *)
FactorExamples ==
    { <<"0", ".", "0", "5">>,
      <<"0", ".", "1", "5">>,
      <<"0", ".", "3">>,
      <<"0", ".", "2", "5">>,
      <<"1", ".", "5">>,
      <<"0", ".", "1", "1">>,
      <<"0", ".", "2", "1">>,
      <<"0", ".", "1", "0">>,
      <<"0", ".", "2", "0">>,
      <<"+", "0", ".", "1">>,
      <<"1", "e", "-", "1">>,
      <<"2", "E", "-", "1">>,
      <<"2", "1", "e", "-", "2">>,
      <<"0", ".", "2", "0", "0", "0", "0", "0", "1">>,
      <<"0", ".", "1", "0", "0", "0", "0", "0", "1">>,
      <<"0", ".", "0", "9", "9", "9", "9", "9", "9">>,
      <<"i", "n", "v", "a", "l", "i", "d">>,
      <<"n", "a", "n">>,
      <<"N", "a", "N">>,
      <<"-", "n", "a", "n">>,
      <<"i", "n", "f">>,
      <<"-", "i", "n", "f">>,
      <<"I", "n", "f", "i", "n", "i", "t", "y">> }

(* the scale factors carry no unit; the unit of a row is not read *)
FactorValues ==
    {[value |-> t, unit |-> None] :
        t \in SeqsUpTo(FactorAlphabet, MaxFactorLen) \cup FactorExamples}
      \cup {[value |-> <<"0", ".", "3">>, unit |-> Some("kB")]}

OptionalFactorValues == {None} \cup {Some(v) : v \in FactorValues}

OtherFactorExamples ==
    { None,
      Some([value |-> <<"0", ".", "0", "5">>, unit |-> None]),
      Some([value |-> <<"0", ".", "1", "5">>, unit |-> None]),
      Some([value |-> <<"0", ".", "3">>, unit |-> None]),
      Some([value |-> <<"i", "n", "v", "a", "l", "i", "d">>, unit |-> None]) }

(* every value of one factor with the examples of the other *)
ScaleFactorInputs ==
    {TwoSettings("autovacuum_analyze_scale_factor", a,
                 "autovacuum_vacuum_scale_factor", v) :
        a \in OptionalFactorValues, v \in OtherFactorExamples}
      \cup {TwoSettings("autovacuum_analyze_scale_factor", a,
                        "autovacuum_vacuum_scale_factor", v) :
                a \in OtherFactorExamples, v \in OptionalFactorValues}

InitScaleFactors ==
    /\ pc = "call"
    /\ input \in ScaleFactorInputs
    /\ output = None
    /\ RunnerIdle

Call_check_autovacuum_scale_factors ==
    /\ pc = "call"
    /\ output' = check_autovacuum_scale_factors(input)
    /\ pc' = "return"
    /\ UNCHANGED <<input, runner_vars>>

NextScaleFactors == Call_check_autovacuum_scale_factors

SpecScaleFactors == InitScaleFactors /\ [][NextScaleFactors]_vars

(* The seven names the query of the check selects, and the name of the     *)
(* fallback validation.                                                    *)
MonitoredSettings ==
    { "autovacuum_analyze_scale_factor", "autovacuum_vacuum_scale_factor",
      "autovacuum_max_workers", "maintenance_work_mem", "vacuum_cost_delay",
      "vacuum_cost_limit", "work_mem" }

(* For each name what a map given to validate_settings holds: nothing, a   *)
(* value of each class, a text that does not parse, and for the memory     *)
(* settings a value whose conversion to bytes leaves the i64 range.        *)
AnalyzeFactorChoices ==
    { None,
      Some([value |-> <<"0", ".", "0", "5">>, unit |-> None]),
      Some([value |-> <<"0", ".", "2">>, unit |-> None]),
      Some([value |-> <<"i", "n", "v", "a", "l", "i", "d">>, unit |-> None]) }

VacuumFactorChoices ==
    { None,
      Some([value |-> <<"0", ".", "1">>, unit |-> None]),
      Some([value |-> <<"0", ".", "5">>, unit |-> None]),
      Some([value |-> <<>>, unit |-> None]) }

WorkersChoices ==
    { None,
      Some([value |-> <<"3">>, unit |-> None]),
      Some([value |-> <<"2">>, unit |-> None]),
      Some([value |-> <<"3", ".", "5">>, unit |-> None]) }

MaintenanceWorkMemChoices ==
    { None,
      Some([value |-> <<"5", "2", "4", "2", "8", "8">>, unit |-> Some("kB")]),
      Some([value |-> <<"1", "6">>, unit |-> Some("MB")]),
      Some([value |-> <<"9", "0", "0", "7", "1", "9", "9", "2", "5", "4", "7", "4",
                        "0", "9", "9", "2">>, unit |-> Some("kB")]) }

CostDelayChoices ==
    { None,
      Some([value |-> <<"2">>, unit |-> Some("ms")]),
      Some([value |-> <<"x">>, unit |-> Some("ms")]) }

CostLimitChoices ==
    { None,
      Some([value |-> <<"2", "0", "0">>, unit |-> None]),
      Some([value |-> <<"1", "0", "0">>, unit |-> None]) }

WorkMemChoices ==
    { None,
      Some([value |-> <<"1", "6", "3", "8", "4">>, unit |-> Some("kB")]),
      Some([value |-> <<"6", "4">>, unit |-> Some("kB")]),
      Some([value |-> <<"4", "M", "B">>, unit |-> None]) }

(* a name validate_settings does not read *)
UnmonitoredChoices ==
    { None, Some([value |-> <<"1", "6", "3", "8", "4">>, unit |-> Some("8kB")]) }

(* adds the entry of a name to the map unless the choice is None *)
WithChoice(settings, name, choice) ==
    IF choice.some THEN WithSetting(settings, name, choice.value) ELSE settings

SettingsOf(a, v, w, m, d, l, k, u) ==
    WithChoice(WithChoice(WithChoice(WithChoice(WithChoice(WithChoice(WithChoice(
      WithChoice(NoSettings,
                 "autovacuum_analyze_scale_factor", a),
                 "autovacuum_vacuum_scale_factor", v),
                 "autovacuum_max_workers", w),
                 "maintenance_work_mem", m),
                 "vacuum_cost_delay", d),
                 "vacuum_cost_limit", l),
                 "work_mem", k),
                 "shared_buffers", u)

SettingsInputs ==
    { SettingsOf(a, v, w, m, d, l, k, u) :
        a \in AnalyzeFactorChoices, v \in VacuumFactorChoices, w \in WorkersChoices,
        m \in MaintenanceWorkMemChoices, d \in CostDelayChoices,
        l \in CostLimitChoices, k \in WorkMemChoices, u \in UnmonitoredChoices }

InitSettings ==
    /\ pc = "call"
    /\ input \in SettingsInputs
    /\ output = None
    /\ RunnerIdle

Call_validate_settings ==
    /\ pc = "call"
    /\ output' = validate_settings(input)
    /\ pc' = "return"
    /\ UNCHANGED <<input, runner_vars>>

(* the same call in a build with overflow checks: the multiplication panics *)
Panic_validate_settings ==
    /\ pc = "call"
    /\ \E name \in MonitoredSettings \ { "autovacuum_analyze_scale_factor",
                                         "autovacuum_vacuum_scale_factor" } :
          setting_overflows(input, name)
    /\ pc' = "panic"
    /\ UNCHANGED <<input, output, runner_vars>>

NextSettings == Call_validate_settings \/ Panic_validate_settings

SpecSettings == InitSettings /\ [][NextSettings]_vars

(* the bound on the size of the small byte counts given to                 *)
(* bytes_to_human_readable                                                 *)
MaxSmallBytes == 30

(* 1024^k - 1 and 1024^k as magnitudes *)
BelowPowerOf1024(k) == [j \in 1..k |-> 1023]

PowerOf1024(k) == [j \in 1..(k + 1) |-> IF j = k + 1 THEN 1 ELSE 0]

(* magnitudes next to the powers of 1024, next to 2^53 where an f64 stops  *)
(* holding every integer, and next to 2^63                                 *)
ByteMagnitudes ==
    {BelowPowerOf1024(k) : k \in 1..6}
      \cup {PowerOf1024(k) : k \in 1..6}
      \cup {MagAdd(PowerOf1024(k), <<1>>) : k \in 1..6}
      \cup { <<1022, 1023, 1023, 1023, 1023>>, <<1021, 1023, 1023, 1023, 1023>>,
             <<1, 0, 0, 0, 0, 8>>,
             <<192, 1021, 1023, 1023, 1023, 1023>>, <<191, 1021, 1023, 1023, 1023, 1023>>,
             <<1023, 1023, 1023, 1023, 1023, 1023, 7>> }

BytesInputs ==
    {I64FromInt(n) : n \in (-MaxSmallBytes)..MaxSmallBytes}
      \cup {I64(neg, mag) : neg \in BOOLEAN, mag \in ByteMagnitudes}
      \cup {I64(TRUE, MagTwo63)}

InitBytes ==
    /\ pc = "call"
    /\ input \in BytesInputs
    /\ output = None
    /\ RunnerIdle

Call_bytes_to_human_readable ==
    /\ pc = "call"
    /\ output' = bytes_to_human_readable(input)
    /\ pc' = "return"
    /\ UNCHANGED <<input, runner_vars>>

(* the same call in a build with overflow checks: bytes.abs() panics *)
Panic_bytes_to_human_readable ==
    /\ pc = "call"
    /\ abs_overflows(input)
    /\ pc' = "panic"
    /\ UNCHANGED <<input, output, runner_vars>>

NextBytes == Call_bytes_to_human_readable \/ Panic_bytes_to_human_readable

SpecBytes == InitBytes /\ [][NextBytes]_vars

(* the bounds on the timestamps of the bloat rows and on the number of     *)
(* rows                                                                    *)
MaxTimestamp == 23

MaxBloatTables == 2

Timestamps == {None} \cup {Some(t) : t \in 0..MaxTimestamp}

(* 40, 60, 60.01, 75 and 100 percent *)
Percentages ==
    { F64("finite", FALSE, 40, 0), F64("finite", FALSE, 60, 0),
      F64("finite", FALSE, 6001, -2), F64("finite", FALSE, 75, 0),
      F64("finite", FALSE, 100, 0) }

(* the rows of one table, with every percentage and pair of timestamps *)
BloatRows ==
    { TableBloatInfo("public", "orders", I64MulSmall(MB, 800), I64MulSmall(MB, 600), p, v, a) :
        p \in Percentages, v \in Timestamps, a \in Timestamps }

(* rows of other tables: flagged, bloated but maintained, not bloated *)
OtherBloatRows ==
    << TableBloatInfo("public", "events", I64MulSmall(MB, 400), I64MulSmall(MB, 300),
                      F64("finite", FALSE, 75, 0), None, Some(MaxTimestamp)),
       TableBloatInfo("public", "users", I64MulSmall(MB, 200), I64MulSmall(MB, 150),
                      F64("finite", FALSE, 75, 0), Some(MaxTimestamp), Some(MaxTimestamp)),
       TableBloatInfo("public", "logs", I64MulSmall(MB, 100), I64MulSmall(MB, 40),
                      F64("finite", FALSE, 40, 0), None, None),
       TableBloatInfo("public", "items", I64MulSmall(MB, 50), I64MulSmall(MB, 30),
                      F64("finite", FALSE, 60, 0), None, None) >>

(* what fetch_table_bloat_data can return: no row, or the rows of one      *)
(* table before or after rows of other tables                              *)
BloatData ==
    {<<>>}
      \cup {<<r>> \o SubSeq(OtherBloatRows, 1, j) :
                r \in BloatRows, j \in 0..(MaxBloatTables - 1)}
      \cup {SubSeq(OtherBloatRows, 1, j) \o <<r>> :
                r \in BloatRows, j \in 1..(MaxBloatTables - 1)}

(* OffsetDateTime::now_utc() at the run *)
NowInputs == {MaxTimestamp - 2, MaxTimestamp - 1}

InitBloat ==
    /\ pc = "call"
    /\ input \in [bloat_data : BloatData, now : NowInputs]
    /\ output = None
    /\ RunnerIdle

Call_TableBloatCheck_run ==
    /\ pc = "call"
    /\ output' = TableBloatCheck_run(input.bloat_data, input.now)
    /\ pc' = "return"
    /\ UNCHANGED <<input, runner_vars>>

NextBloat == Call_TableBloatCheck_run

SpecBloat == InitBloat /\ [][NextBloat]_vars

(* the bound on the number of tables of the catalog *)
MaxCatalogTables == 2

(* one table in every combination of schema, kind, live rows, size and     *)
(* summed column width (0 is a table without statistics)                   *)
CatalogRows ==
    { CatalogRow(nspname, "orders", relkind, reltuples, relation_size, avg_width_sum,
                 None, Some(0)) :
        nspname \in {"public", "audit"}, relkind \in {"r", "i"},
        reltuples \in {0, 1, 10}, relation_size \in {0, 35, 36, 1000, 8192},
        avg_width_sum \in {0, 1, 65} }

(* other tables: 7192 bytes of bloat twice, none, and one without          *)
(* statistics                                                              *)
OtherCatalogRows ==
    << CatalogRow("public", "events", "r", 10, 8192, 65, None, None),
       CatalogRow("public", "users", "r", 10, 8192, 65, Some(0), Some(0)),
       CatalogRow("public", "logs", "r", 100, 8192, 100, None, None),
       CatalogRow("public", "items", "r", 10, 8192, 0, None, None) >>

Catalogs ==
    {<<>>}
      \cup {<<c>> \o SubSeq(OtherCatalogRows, 1, j) :
                c \in CatalogRows, j \in 0..(MaxCatalogTables - 1)}
      \cup {SubSeq(OtherCatalogRows, 1, j) \o <<c>> :
                c \in CatalogRows, j \in 1..(MaxCatalogTables - 1)}

InitBloatQuery ==
    /\ pc = "call"
    /\ input \in Catalogs
    /\ output = None
    /\ RunnerIdle

Call_fetch_table_bloat_data ==
    /\ pc = "call"
    /\ output' \in fetch_table_bloat_data(input)
    /\ pc' = "return"
    /\ UNCHANGED <<input, runner_vars>>

NextBloatQuery == Call_fetch_table_bloat_data

SpecBloatQuery == InitBloatQuery /\ [][NextBloatQuery]_vars

---------------------------------------------------------------------------
(* Properties *)

(* an optional sign followed by one or more decimal digits *)
IsIntegerText(v) ==
    LET digits == IF v # <<>> /\ v[1] \in {"+", "-"} THEN Tail(v) ELSE v
    IN  digits # <<>> /\ \A k \in DOMAIN digits : digits[k] \in Digits

(* the part of a token before its first '.' (the whole token without '.') *)
BeforeFirstDot(v) ==
    IF \E k \in DOMAIN v : v[k] = "."
    THEN SubSeq(v, 1, (CHOOSE k \in DOMAIN v :
                          v[k] = "." /\ \A j \in 1..(k - 1) : v[j] # ".") - 1)
    ELSE v

(* Ok < Warn < Critical *)
SeverityRank(status) ==
    CASE status = "Ok" -> 0 [] status = "Warn" -> 1 [] status = "Critical" -> 2

(* the largest of a finite set of naturals, 0 for the empty set *)
Maximum(S) == IF S = {} THEN 0 ELSE CHOOSE m \in S : \A n \in S : n <= m

MaxSeverityRank(validations) ==
    Maximum({SeverityRank(validations[k].status) : k \in DOMAIN validations})

Permuted(seq, p) == [k \in DOMAIN seq |-> seq[p[k]]]

(* the set of the elements of a list *)
Elements(v) == {v[k] : k \in DOMAIN v}

(* C1: the overall status of a CheckResult is Critical iff some validation *)
(* is Critical, otherwise Warn iff some validation is Warn, otherwise Ok;  *)
(* it is the maximum severity of the validations (Ok for the empty list)   *)
(* and is the same for every order of the validations.                     *)
C1_OverallStatusIsMaxSeverity ==
    pc = "return" =>
        LET any_critical == \E k \in DOMAIN input : input[k].status = "Critical"
            any_warn == \E k \in DOMAIN input : input[k].status = "Warn"
        IN  /\ (output = "Critical") <=> any_critical
            /\ (output = "Warn") <=> (~any_critical /\ any_warn)
            /\ (output = "Ok") <=> (~any_critical /\ ~any_warn)
            /\ SeverityRank(output) = MaxSeverityRank(input)
            /\ input = <<>> => output = "Ok"
            /\ \A p \in Permutations(DOMAIN input) :
                  overall_status(Permuted(input, p)) = output

(* a Warn, then a Critical, then an Ok validation give Critical *)
C1_Witness ==
    /\ pc = "return"
    /\ Len(input) >= 2
    /\ input[1].status = "Warn"
    /\ input[2].status = "Critical"
    /\ input[Len(input)].status = "Ok"
    /\ output = "Critical"

(* C2: should_run_check(i, c) is true iff (include absent or i in include) *)
(* and (exclude absent or i not in exclude) and (categories absent or c in *)
(* categories); absent lists never exclude, and an id in both include and  *)
(* exclude is not selected.                                                *)
C2_SelectionIsConjunction ==
    pc = "return" =>
        LET self == input.self
            i == input.check_id
            c == input.category
        IN  /\ output <=>
                  /\ (~self.include.some \/ i \in Elements(self.include.value))
                  /\ (~self.exclude.some \/ i \notin Elements(self.exclude.value))
                  /\ (~self.categories.some \/ c \in Elements(self.categories.value))
            /\ (~self.include.some /\ ~self.exclude.some /\ ~self.categories.some)
                  => output
            /\ (self.include.some /\ self.exclude.some
                  /\ i \in Elements(self.include.value)
                  /\ i \in Elements(self.exclude.value)) => ~output

(* an id that is both included and excluded, of an allowed category *)
C2_Witness ==
    /\ pc = "return"
    /\ input.self.include.some /\ input.check_id \in Elements(input.self.include.value)
    /\ input.self.exclude.some /\ input.check_id \in Elements(input.self.exclude.value)
    /\ ~input.self.categories.some
    /\ output = FALSE

IsEmptyList(opt) == opt.some /\ opt.value = <<>>

(* C3 as stated: an empty (not absent) include, exclude or category list   *)
(* makes should_run_check reject every (id, category).                     *)
C3_AnyEmptyListSelectsNothing ==
    pc = "return" =>
        ((IsEmptyList(input.self.include) \/ IsEmptyList(input.self.exclude)
            \/ IsEmptyList(input.self.categories)) => output = FALSE)

(* C3 amended: an empty include list or an empty category list makes       *)
(* should_run_check reject every (id, category); an empty exclude list     *)
(* excludes nothing, the result is the one for an absent exclude list.     *)
C3_EmptyIncludeOrCategoriesSelectsNothing ==
    pc = "return" =>
        /\ (IsEmptyList(input.self.include) \/ IsEmptyList(input.self.categories))
              => output = FALSE
        /\ IsEmptyList(input.self.exclude)
              => output = should_run_check([input.self EXCEPT !.exclude = None],
                                           input.check_id, input.category)

(* an empty include list alone rejects a check *)
C3_Witness ==
    /\ pc = "return"
    /\ IsEmptyList(input.self.include)
    /\ ~input.self.exclude.some
    /\ ~input.self.categories.some
    /\ output = FALSE

(* C10: when the major version parses to an integer m, validate_version    *)
(* yields exactly one validation: Critical if m < 10, Warn if 10 <= m < 12 *)
(* and Ok if m >= 12.                                                      *)
C10_VersionClassification ==
    pc = "return" =>
        LET m == parse_version(input)
        IN  m.some =>
              /\ Len(output) = 1
              /\ m.value < 10 => output[1].status = "Critical"
              /\ (10 <= m.value /\ m.value < 12) => output[1].status = "Warn"
              /\ m.value >= 12 => output[1].status = "Ok"

(* C11: validate_version returns exactly one validation for every input;   *)
(* when the major version cannot be parsed (fewer than two whitespace-     *)
(* delimited tokens, or the part of the second token before its first '.'  *)
(* is not an integer, or is one that i32 cannot hold) that validation is   *)
(* Warn and its message is "Could not parse version from: " followed by    *)
(* the input.                                                              *)
C11_MalformedVersionIsOneWarn ==
    pc = "return" =>
        LET tokens == split_whitespace(input)
            malformed == \/ Len(tokens) < 2
                         \/ ~IsIntegerText(BeforeFirstDot(tokens[2]))
        IN  /\ Len(output) = 1
            /\ malformed => ~parse_version(input).some
            /\ ~parse_version(input).some =>
                  /\ output[1].status = "Warn"
                  /\ output[1].message =
                        [fmt |-> "Could not parse version from: {}", args |-> <<input>>]

(* "Invalid version": the second token is not an integer *)
C11_Witness ==
    /\ pc = "return"
    /\ Len(split_whitespace(input)) = 2
    /\ ~IsIntegerText(split_whitespace(input)[2])
    /\ Len(input) > MaxVersionLen
    /\ Len(output) = 1
    /\ output[1].status = "Warn"
    /\ output[1].message.fmt = "Could not parse version from: {}"
    /\ output[1].message.args = <<input>>

(* the boundary 10 is classified Warn *)
C10_Witness ==
    /\ pc = "return"
    /\ parse_version(input) = Some(10)
    /\ Len(output) = 1
    /\ output[1].status = "Warn"

(* the run got its connection and has ended with the report *)
RunCompleted == pc = "exited" /\ client = "connected"

(* the selection predicate accepts the check at registry position k *)
Accepted(k) == should_run_check(args, all_checks[k].id, all_checks[k].category)

(* the ids of the checks at positions k.. of the registry that keep marks *)
RECURSIVE RegistryIdsFrom(_, _)
RegistryIdsFrom(k, keep) ==
    IF k > 3 THEN <<>>
    ELSE (IF keep[k] THEN <<(<<"pg_version", "table_sizes", "vacuum_settings">>)[k]>>
          ELSE <<>>) \o RegistryIdsFrom(k + 1, keep)

SelectedAndSucceeded == [k \in 1..3 |-> Accepted(k) /\ outcome[k] = "ok"]

(* C4: at the end of a run the list handed to the report renderer is the   *)
(* registry-order (version, table-sizes, vacuum-settings) subsequence of   *)
(* the checks that were selected and succeeded: one result for each, none  *)
(* for any other check, order unchanged.                                   *)
C4_ReportIsRegistryOrderSubsequence ==
    RunCompleted =>
        /\ Len(reports) = 1
        /\ [k \in DOMAIN reports[1] |-> reports[1][k].check_id]
              = RegistryIdsFrom(1, SelectedAndSucceeded)

(* the first and the third check succeed around a failing second one *)
C4_Witness ==
    /\ RunCompleted
    /\ outcome = <<"ok", "err", "ok">>
    /\ Len(reports) = 1
    /\ Len(reports[1]) = 2
    /\ reports[1][1].check_id = "pg_version"
    /\ reports[1][2].check_id = "vacuum_settings"

(* C5: a data-access failure of a check does not abort the run: the        *)
(* failing check contributes no result, every later registered check that  *)
(* the selection predicate accepts is still executed, and the report is    *)
(* rendered once, after the last check.                                    *)
C5_FailureIsIsolated ==
    /\ \A k \in DOMAIN outcome :
          outcome[k] = "err" =>
              /\ pc = "exited" => Len(reports) = 1
              /\ \A j \in DOMAIN results : results[j].check_id # all_checks[k].id
              /\ \A r \in DOMAIN reports : \A j \in DOMAIN reports[r] :
                    reports[r][j].check_id # all_checks[k].id
              /\ RunCompleted =>
                    \A j \in DOMAIN all_checks :
                        (j > k /\ Accepted(j)) =>
                            /\ outcome[j] \in {"ok", "err"}
                            /\ executed[all_checks[j].id] = 1
    /\ Len(reports) <= 1
    /\ Len(reports) = 1 => (pc = "exited" /\ idx = Len(all_checks) + 1)

(* the first check fails, the later two still run and the report follows *)
C5_Witness ==
    /\ RunCompleted
    /\ outcome = <<"err", "ok", "ok">>
    /\ errors = <<"PostgreSQL Version Check">>
    /\ Len(reports) = 1
    /\ Len(reports[1]) = 2

(* C6: in one run every registered check is executed exactly once when the *)
(* selection predicate accepts it and never when it rejects it; no check   *)
(* is executed a second time, also not after it failed.                    *)
C6_ExecutedExactlyOnceIfSelected ==
    /\ \A i \in DOMAIN executed : executed[i] <= 1
    /\ \A k \in DOMAIN all_checks :
          /\ ~Accepted(k) => executed[all_checks[k].id] = 0
          /\ RunCompleted => executed[all_checks[k].id] = (IF Accepted(k) THEN 1 ELSE 0)
          /\ k < idx => executed[all_checks[k].id] = (IF Accepted(k) THEN 1 ELSE 0)

(* a failed check was executed once, a rejected one never *)
C6_Witness ==
    /\ RunCompleted
    /\ outcome = <<"err", "skipped", "ok">>
    /\ executed["pg_version"] = 1
    /\ executed["table_sizes"] = 0
    /\ executed["vacuum_settings"] = 1

(* the severity rank of a CheckResult: the largest rank of its validations *)
ResultRank(result) == MaxSeverityRank(result.validations)

(* C7: the exit status after a run is the maximum of the overall           *)
(* severities of the collected results, Ok 0, Warn 1, Critical 2: 2 iff    *)
(* some result is Critical, 1 iff none is Critical and some is Warn, 0     *)
(* otherwise, whatever the order of the results.                           *)
C7_ExitStatusIsMaxSeverity ==
    (pc = "exited" /\ Len(reports) = 1) =>
        LET ranks == {ResultRank(reports[1][k]) : k \in DOMAIN reports[1]}
        IN  /\ exit_code = Some(Maximum(ranks))
            /\ (exit_code.value = 2) <=> (2 \in ranks)
            /\ (exit_code.value = 1) <=> (2 \notin ranks /\ 1 \in ranks)
            /\ (exit_code.value = 0) <=> (2 \notin ranks /\ 1 \notin ranks)

(* a Critical result followed by a Warn result and an Ok one exits with 2 *)
C7_Witness ==
    /\ pc = "exited"
    /\ Len(reports) = 1
    /\ Len(reports[1]) = 3
    /\ ResultRank(reports[1][1]) = 2
    /\ ResultRank(reports[1][2]) = 1
    /\ ResultRank(reports[1][3]) = 0
    /\ exit_code = Some(2)

(* C8: when the connection cannot be established the run aborts before     *)
(* any check is executed: no check runs, no report is rendered and the     *)
(* exit status is not zero.                                                *)
C8_ConnectionFailureAborts ==
    client = "failed" =>
        /\ pc = "exited"
        /\ \A i \in DOMAIN executed : executed[i] = 0
        /\ \A k \in DOMAIN outcome : outcome[k] = "pending"
        /\ results = <<>>
        /\ reports = <<>>
        /\ exit_code.some /\ exit_code.value # 0

(* a run that some check would have been selected in ends at the connect *)
C8_Witness ==
    /\ client = "failed"
    /\ pc = "exited"
    /\ Accepted(1)
    /\ executed["pg_version"] = 0
    /\ exit_code = Some(1)

(* C9: under the check-bloat command the table-bloat check is executed and *)
(* is the only check executed; under the run command the table-bloat check *)
(* is not executed.                                                        *)
C9_CheckBloatRunsOnlyBloat ==
    RunCompleted =>
        IF args.command = "check-bloat"
        THEN /\ executed["table_bloat"] = 1
             /\ \A k \in DOMAIN all_checks : executed[all_checks[k].id] = 0
        ELSE executed["table_bloat"] = 0

(* 10 GiB and 50 GiB in bytes: 10 * 1024^3 and 50 * 1024^3 *)
TenGiB == I64(FALSE, <<0, 0, 0, 10>>)

FiftyGiB == I64(FALSE, <<0, 0, 0, 50>>)

(* the tables of at least 10 GiB, in the order of the list *)
RECURSIVE LargeTablesFrom(_, _)
LargeTablesFrom(tables, k) ==
    IF k > Len(tables) THEN <<>>
    ELSE IF I64Cmp(tables[k].size, TenGiB) >= 0
    THEN <<tables[k]>> \o LargeTablesFrom(tables, k + 1)
    ELSE LargeTablesFrom(tables, k + 1)

LargeTables(tables) == LargeTablesFrom(tables, 1)

(* the validations named for one table, in the order of the list *)
RECURSIVE TableValidationsFrom(_, _)
TableValidationsFrom(validations, k) ==
    IF k > Len(validations) THEN <<>>
    ELSE IF validations[k].name[1] = "table_size_{}.{}"
    THEN <<validations[k]>> \o TableValidationsFrom(validations, k + 1)
    ELSE TableValidationsFrom(validations, k + 1)

(* C12: validate_tables of the empty list returns exactly one validation,  *)
(* the Ok "No tables found", and no total-size validation; of a non-empty  *)
(* list the first validation is the Ok total-size summary.                 *)
C12_EmptyListIsOneOk ==
    pc = "return" =>
        /\ input = <<>> =>
              /\ Len(output) = 1
              /\ output[1].status = "Ok"
              /\ output[1].name = <<"table_count">>
              /\ output[1].message.fmt = "No tables found in the database."
              /\ \A k \in DOMAIN output : output[k].name # <<"total_size">>
        /\ input # <<>> =>
              /\ output[1].name = <<"total_size">>
              /\ output[1].status = "Ok"
              /\ output[1].message.fmt = "Total database size: {} across {} table(s)"
              /\ output[1].message.args[2] = Len(input)

(* the empty list was validated *)
C12_Witness ==
    /\ pc = "return"
    /\ input = <<>>
    /\ Len(output) = 1
    /\ output[1].name = <<"table_count">>

(* C13: of a non-empty list, the validations named for a table are, in the *)
(* order of the list, one for each table of at least 10 GiB and none for a *)
(* smaller one; it is Critical iff the size is at least 50 GiB and Warn    *)
(* iff it is at least 10 GiB and less than 50 GiB; no other validation is  *)
(* Warn or Critical.                                                       *)
C13_PerTableThresholds ==
    (pc = "return" /\ input # <<>>) =>
        LET large == LargeTables(input)
            emitted == TableValidationsFrom(output, 1)
        IN  /\ Len(emitted) = Len(large)
            /\ \A k \in DOMAIN large :
                  /\ emitted[k].name = <<"table_size_{}.{}", large[k].schema, large[k].table>>
                  /\ emitted[k].message.args[1] = large[k].schema
                  /\ emitted[k].message.args[2] = large[k].table
                  /\ (emitted[k].status = "Critical")
                        <=> I64Cmp(large[k].size, FiftyGiB) >= 0
                  /\ (emitted[k].status = "Warn")
                        <=> I64Cmp(large[k].size, FiftyGiB) < 0
            /\ \A k \in DOMAIN output :
                  output[k].status # "Ok" => output[k].name[1] = "table_size_{}.{}"

(* exactly 50 GiB, one byte less than 10 GiB, exactly 10 GiB *)
C13_Witness ==
    /\ pc = "return"
    /\ Len(input) = 3
    /\ input[1].size = FiftyGiB
    /\ I64Cmp(input[2].size, TenGiB) < 0 /\ input[2].size.mag # <<>>
    /\ input[3].size = TenGiB
    /\ Len(output) = 3
    /\ output[2].status = "Critical"
    /\ output[3].status = "Warn"

(* C14: of a non-empty list, the last validation is the Ok "large_tables"  *)
(* iff no table is of at least 10 GiB; the result then has 2 validations,  *)
(* and otherwise 1 + the number of tables of at least 10 GiB.              *)
C14_TrailingOkIffNoLargeTable ==
    (pc = "return" /\ input # <<>>) =>
        LET n == Len(LargeTables(input))
            trailing == {k \in DOMAIN output : output[k].name = <<"large_tables">>}
        IN  /\ (trailing # {}) <=> (n = 0)
            /\ n = 0 =>
                  /\ Len(output) = 2
                  /\ trailing = {2}
                  /\ output[2].status = "Ok"
                  /\ output[2].message.fmt = "No unusually large tables detected."
            /\ n > 0 => Len(output) = 1 + n

(* three tables below 10 GiB give the summary and the trailing Ok *)
C14_Witness ==
    /\ pc = "return"
    /\ Len(input) = 3
    /\ LargeTables(input) = <<>>
    /\ Len(output) = 2
    /\ output[2].name = <<"large_tables">>

(* the integer an integer text denotes *)
IntegerValue(v) ==
    LET digits == IF v[1] \in {"+", "-"} THEN Tail(v) ELSE v
        mag == MagFromDigits(digits, 1, <<>>)
    IN  I64(v[1] = "-" /\ mag # <<>>, mag)

(* the multiplier of a unit as a list of factors of at most 1024 *)
UnitMultiplier(unit) ==
    CASE unit = Some("kB") -> <<1024>>
      [] unit = Some("MB") -> <<1024, 1024>>
      [] unit = Some("GB") -> <<1024, 1024, 1024>>
      [] unit = Some("s") -> <<1000>>
      [] OTHER -> <<>>

(* the mathematical product of a and the factors *)
RECURSIVE ExactProduct(_, _)
ExactProduct(a, factors) ==
    IF factors = <<>> THEN a
    ELSE ExactProduct(I64MulSmall(a, Head(factors)), Tail(factors))

(* C15: for every 64-bit integer v given as text parse_setting_value       *)
(* returns v * 1024 for kB, v * 1024^2 for MB, v * 1024^3 for GB, v for    *)
(* ms, v * 1000 for s and v without a unit; a text that is not an integer  *)
(* yields no value.                                                        *)
C15_UnitConversionIsExact ==
    pc = "return" =>
        IF ~IsIntegerText(input.setting) THEN output = None
        ELSE (/\ InI64Range(IntegerValue(input.setting))
              /\ input.unit \in (SettingUnits \ {Some("min")}))
                => output = Some(ExactProduct(IntegerValue(input.setting),
                                              UnitMultiplier(input.unit)))

(* the i64 the setting of a name converts to, None when the name is absent *)
(* or its text is not an i64                                               *)
SettingValueOf(settings, name) ==
    IF name \in DOMAIN settings
    THEN parse_setting_value(settings[name].value, settings[name].unit)
    ELSE None

(* a < n, a <= n and a > n for an i64 a and a small integer n *)
Below(a, n) == I64Cmp(a, I64FromInt(n)) < 0

AtMost(a, n) == I64Cmp(a, I64FromInt(n)) <= 0

Above(a, n) == I64Cmp(a, I64FromInt(n)) > 0

(* C16: for a maintenance_work_mem that parse_setting_value converts to a  *)
(* value, with m that value divided by 1024^2 (an integer division),       *)
(* check_maintenance_work_mem emits exactly one validation: Critical if    *)
(* m < 64, Warn if 64 <= m <= 255, Ok if 256 <= m <= 2048, Warn if         *)
(* m > 2048.                                                               *)
C16_MaintenanceWorkMemTiers ==
    pc = "return" =>
        LET mem_bytes == SettingValueOf(input, "maintenance_work_mem")
        IN  mem_bytes.some =>
              LET m == I64DivPow1024(mem_bytes.value, 2)
              IN  /\ Len(output) = 1
                  /\ output[1].name = <<"maintenance_work_mem">>
                  /\ output[1].message.args = <<m>>
                  /\ output[1].status =
                        IF Below(m, 64) THEN "Critical"
                        ELSE IF AtMost(m, 255) THEN "Warn"
                        ELSE IF AtMost(m, 2048) THEN "Ok"
                        ELSE "Warn"

(* 2 GB is 2048 MiB, the upper end of Ok *)
C16_Witness ==
    /\ pc = "return"
    /\ "maintenance_work_mem" \in DOMAIN input
    /\ input["maintenance_work_mem"] = [value |-> <<"2">>, unit |-> Some("GB")]
    /\ Len(output) = 1
    /\ output[1].status = "Ok"
    /\ output[1].message.args = <<I64FromInt(2048)>>

(* C17: for a work_mem that parse_setting_value converts to a value, with  *)
(* m that value divided by 1024^2 (an integer division), check_work_mem    *)
(* emits exactly one validation: Warn if m < 4, Ok if 4 <= m <= 1024, Warn *)
(* if m > 1024; it is never Critical.                                      *)
C17_WorkMemTiers ==
    pc = "return" =>
        LET mem_bytes == SettingValueOf(input, "work_mem")
        IN  /\ \A k \in DOMAIN output : output[k].status # "Critical"
            /\ mem_bytes.some =>
                  LET m == I64DivPow1024(mem_bytes.value, 2)
                  IN  /\ Len(output) = 1
                      /\ output[1].name = <<"work_mem">>
                      /\ output[1].message.args = <<m>>
                      /\ output[1].status =
                            IF Below(m, 4) THEN "Warn"
                            ELSE IF AtMost(m, 1024) THEN "Ok"
                            ELSE "Warn"

(* 4 MB is the lower end of Ok *)
C17_Witness ==
    /\ pc = "return"
    /\ "work_mem" \in DOMAIN input
    /\ input["work_mem"] = [value |-> <<"4">>, unit |-> Some("MB")]
    /\ Len(output) = 1
    /\ output[1].status = "Ok"

(* C18: for an autovacuum_max_workers that parse_setting_value converts to *)
(* a value w, check_autovacuum_workers emits exactly one validation: Warn  *)
(* if w < 3, Warn if w > 10, Ok if 3 <= w <= 10.                           *)
C18_WorkersTiers ==
    pc = "return" =>
        LET workers == SettingValueOf(input, "autovacuum_max_workers")
        IN  workers.some =>
              LET w == workers.value
              IN  /\ Len(output) = 1
                  /\ output[1].name = <<"autovacuum_max_workers">>
                  /\ output[1].message.args = <<w>>
                  /\ output[1].status =
                        IF Below(w, 3) THEN "Warn"
                        ELSE IF Above(w, 10) THEN "Warn"
                        ELSE "Ok"
                  /\ (Below(w, 3) \/ Above(w, 10))
                        <=> output[1].message.fmt # "autovacuum_max_workers is {} (optimal)."

(* 10 workers is the upper end of Ok *)
C18_Witness ==
    /\ pc = "return"
    /\ "autovacuum_max_workers" \in DOMAIN input
    /\ input["autovacuum_max_workers"] = [value |-> <<"1", "0">>, unit |-> None]
    /\ Len(output) = 1
    /\ output[1].status = "Ok"

(* the settings map without the setting of a name *)
Without(settings, name) == [n \in DOMAIN settings \ {name} |-> settings[n]]

(* C19: check_vacuum_cost_settings never builds a Critical validation; a   *)
(* vacuum_cost_delay that converts to a value in milliseconds gives one    *)
(* validation, Warn iff the value is > 10 and Ok iff it is <= 10; a        *)
(* vacuum_cost_limit that converts to a value gives one validation, Warn   *)
(* iff the value is < 200 and Ok iff it is >= 200; the validation of one   *)
(* setting is the same whatever the other setting is.                      *)
C19_CostSettingsWarnOrOk ==
    pc = "return" =>
        LET delay_ms == SettingValueOf(input, "vacuum_cost_delay")
            limit == SettingValueOf(input, "vacuum_cost_limit")
            n_delay == IF delay_ms.some THEN 1 ELSE 0
            n_limit == IF limit.some THEN 1 ELSE 0
        IN  /\ \A k \in DOMAIN output : output[k].status \in {"Warn", "Ok"}
            /\ Len(output) = n_delay + n_limit
            /\ delay_ms.some =>
                  /\ output[1].name = <<"vacuum_cost_delay">>
                  /\ output[1].message.args = <<delay_ms.value>>
                  /\ (output[1].status = "Warn") <=> Above(delay_ms.value, 10)
                  /\ (output[1].status = "Ok") <=> AtMost(delay_ms.value, 10)
            /\ limit.some =>
                  /\ output[Len(output)].name = <<"vacuum_cost_limit">>
                  /\ output[Len(output)].message.args = <<limit.value>>
                  /\ (output[Len(output)].status = "Warn") <=> Below(limit.value, 200)
                  /\ (output[Len(output)].status = "Ok") <=> ~Below(limit.value, 200)
            /\ output = check_vacuum_cost_settings(Without(input, "vacuum_cost_limit"))
                           \o check_vacuum_cost_settings(Without(input, "vacuum_cost_delay"))

(* a delay of 10 ms is Ok next to a limit of 199, which is Warn *)
C19_Witness ==
    /\ pc = "return"
    /\ DOMAIN input = {"vacuum_cost_delay", "vacuum_cost_limit"}
    /\ input["vacuum_cost_delay"] = [value |-> <<"1", "0">>, unit |-> Some("ms")]
    /\ input["vacuum_cost_limit"] = [value |-> <<"1", "9", "9">>, unit |-> None]
    /\ Len(output) = 2
    /\ output[1].status = "Ok"
    /\ output[2].status = "Warn"

(* the f64 the scale factor of a name parses to, None when the name is    *)
(* absent or its text is not an f64                                        *)
FactorOf(settings, name) ==
    IF name \in DOMAIN settings THEN parse_float_setting(settings[name].value) ELSE None

(* x <= t / 10 on f64: the negation of > for every number, false for NaN *)
F64LeTenths(x, t) == x.class # "nan" /\ ~F64GtTenths(x, t)

IsAcceptable(r) ==
    /\ r.status = "Ok"
    /\ r.message.fmt = "autovacuum_vacuum_scale_factor is {} (acceptable)."

IsOptimal(r) ==
    /\ r.status = "Ok"
    /\ r.message.fmt = "autovacuum_vacuum_scale_factor is {} (optimal)."

(* one validation for each factor that parses, the analyze factor first,   *)
(* the analyze factor Warn iff it is > 0.1 and Ok otherwise, the vacuum    *)
(* factor Warn iff it is > 0.2, and each validation the same whatever the  *)
(* other factor is                                                         *)
ScaleFactorsCommon ==
    LET analyze_factor == FactorOf(input, "autovacuum_analyze_scale_factor")
        vacuum_factor == FactorOf(input, "autovacuum_vacuum_scale_factor")
        n_analyze == IF analyze_factor.some THEN 1 ELSE 0
        n_vacuum == IF vacuum_factor.some THEN 1 ELSE 0
    IN  /\ Len(output) = n_analyze + n_vacuum
        /\ analyze_factor.some =>
              /\ output[1].name = <<"autovacuum_analyze_scale_factor">>
              /\ output[1].message.args = <<analyze_factor.value>>
              /\ (output[1].status = "Warn") <=> F64GtTenths(analyze_factor.value, 1)
              /\ (output[1].status = "Ok") <=> ~F64GtTenths(analyze_factor.value, 1)
        /\ vacuum_factor.some =>
              /\ output[Len(output)].name = <<"autovacuum_vacuum_scale_factor">>
              /\ output[Len(output)].message.args = <<vacuum_factor.value>>
              /\ (output[Len(output)].status = "Warn")
                    <=> F64GtTenths(vacuum_factor.value, 2)
        /\ output =
              check_autovacuum_scale_factors(Without(input, "autovacuum_vacuum_scale_factor"))
                \o check_autovacuum_scale_factors(Without(input, "autovacuum_analyze_scale_factor"))

(* C20 as stated: for scale factors that parse, the analyze factor is Warn *)
(* iff it is > 0.1 and Ok otherwise; the vacuum factor is Warn iff it is   *)
(* > 0.2, Ok "acceptable" iff it is > 0.1 and <= 0.2, and Ok "optimal" iff *)
(* it is <= 0.1; one validation each, independently of the other.          *)
C20_ScaleFactorClasses ==
    pc = "return" =>
        LET vacuum_factor == FactorOf(input, "autovacuum_vacuum_scale_factor")
        IN  /\ ScaleFactorsCommon
            /\ vacuum_factor.some =>
                  /\ IsAcceptable(output[Len(output)])
                        <=> (F64GtTenths(vacuum_factor.value, 1)
                               /\ F64LeTenths(vacuum_factor.value, 2))
                  /\ IsOptimal(output[Len(output)])
                        <=> F64LeTenths(vacuum_factor.value, 1)

(* whether the entry of a monitored name is present and parses as the      *)
(* number its check reads: a float for the scale factors, an i64 else      *)
ParsesAsNumber(settings, name) ==
    IF name \in {"autovacuum_analyze_scale_factor", "autovacuum_vacuum_scale_factor"}
    THEN FactorOf(settings, name).some
    ELSE SettingValueOf(settings, name).some

IsFallback(r) ==
    /\ r.name = <<"vacuum_settings">>
    /\ r.status = "Ok"
    /\ r.message.fmt = "All vacuum-related settings are within acceptable ranges."

(* the positions of a list of validations that carry a name *)
PositionsNamed(validations, name) ==
    {k \in DOMAIN validations : validations[k].name = <<name>>}

(* C21: validate_settings never returns an empty list; with none of the    *)
(* seven monitored settings present it returns exactly the fallback Ok     *)
(* named "vacuum_settings"; when a monitored setting produced a validation *)
(* the fallback is not emitted; at most one validation per monitored       *)
(* setting.                                                                *)
C21_FallbackOnlyWhenNothingProduced ==
    pc = "return" =>
        /\ output # <<>>
        /\ (DOMAIN input \cap MonitoredSettings = {})
              => (Len(output) = 1 /\ IsFallback(output[1]))
        /\ (\E name \in MonitoredSettings : ParsesAsNumber(input, name))
              => PositionsNamed(output, "vacuum_settings") = {}
        /\ \A name \in MonitoredSettings :
              Cardinality(PositionsNamed(output, name)) <= 1
        /\ \A k \in DOMAIN output :
              output[k].name \in {<<name>> : name \in MonitoredSettings \cup {"vacuum_settings"}}

C21_Witness ==
    /\ pc = "return"
    /\ DOMAIN input = {"shared_buffers"}
    /\ Len(output) = 1
    /\ IsFallback(output[1])

(* what validate_settings returns for the map without the entry of a name *)
ValidationsWithout(settings, name) == validate_settings(Without(settings, name))

(* C22: a monitored setting that is absent, or present with a text that    *)
(* does not parse as a number, is silently omitted: validate_settings      *)
(* returns normally, emits no validation for that setting, and returns     *)
(* what it returns for the map without that entry.                         *)
C22_UnparseableSettingIsOmitted ==
    /\ pc = "return" =>
          \A name \in MonitoredSettings :
              ~ParsesAsNumber(input, name) =>
                  /\ PositionsNamed(output, name) = {}
                  /\ output = ValidationsWithout(input, name)
    /\ pc = "panic" => \E name \in MonitoredSettings : ParsesAsNumber(input, name)

C22_Witness ==
    /\ pc = "return"
    /\ "work_mem" \in DOMAIN input
    /\ ~ParsesAsNumber(input, "work_mem")
    /\ ParsesAsNumber(input, "maintenance_work_mem")
    /\ PositionsNamed(output, "work_mem") = {}
    /\ PositionsNamed(output, "maintenance_work_mem") # {}
    /\ output = ValidationsWithout(input, "work_mem")

(* a percentage of the bloat rows in hundredths of a percent *)
Hundredths(p) == IF p.exp = 0 THEN 100 * p.mant ELSE p.mant

(* absent, or strictly older than five days (ten half days) before now *)
Stale(t, now) == ~t.some \/ t.value < now - 10

ShouldBeFlagged(info, now) ==
    /\ Hundredths(info.bloat_percentage) > 6000
    /\ Stale(info.last_autovacuum, now) \/ Stale(info.last_autoanalyze, now)

(* the positions of the validations of a table in a list of validations *)
PositionsOfTable(validations, info) ==
    {k \in DOMAIN validations :
        validations[k].name = <<"{}.{}", info.schema_name, info.table_name>>}

(* C23: for every table returned by the bloat query the bloat check emits  *)
(* a validation for it iff bloat_percentage > 60 and (last_autovacuum is   *)
(* stale or last_autoanalyze is stale), stale meaning absent or strictly   *)
(* older than 5 days before the evaluation time; every emitted validation  *)
(* is Warn.                                                                *)
C23_FlaggedIffBloatedAndStale ==
    pc = "return" =>
        /\ \A k \in DOMAIN input.bloat_data :
              Cardinality(PositionsOfTable(output.validations, input.bloat_data[k]))
                = IF ShouldBeFlagged(input.bloat_data[k], input.now) THEN 1 ELSE 0
        /\ \A k \in DOMAIN output.validations :
              /\ output.validations[k].status = "Warn"
              /\ \E j \in DOMAIN input.bloat_data :
                    k \in PositionsOfTable(output.validations, input.bloat_data[j])

(* 75% with autovacuum 10 days ago and autoanalyze 1 day ago is flagged,   *)
(* before a table that never had an autovacuum                             *)
C23_Witness ==
    /\ pc = "return"
    /\ Len(input.bloat_data) = 2
    /\ input.bloat_data[1].bloat_percentage = F64("finite", FALSE, 75, 0)
    /\ input.bloat_data[1].last_autovacuum = Some(input.now - 20)
    /\ input.bloat_data[1].last_autoanalyze = Some(input.now - 2)
    /\ Len(output.validations) = 2
    /\ output.validations[1].name = <<"{}.{}", "public", "orders">>
    /\ output.validations[1].status = "Warn"
    /\ output.validations[2].name = <<"{}.{}", "public", "events">>

(* a regular table of schema public with live rows and a positive size *)
IsAnalysedTable(c) ==
    /\ c.nspname = "public"
    /\ c.relkind = "r"
    /\ c.reltuples > 0
    /\ c.relation_size > 0

(* max(0, actual_size - live_tuples * (avg_row_data_width + 35)) *)
EstimateForAnyWidth(c) ==
    IF c.relation_size - c.reltuples * (c.avg_width_sum + 35) > 0
    THEN c.relation_size - c.reltuples * (c.avg_width_sum + 35)
    ELSE 0

(* the same for a positive width, and 0 for the width 0 *)
EstimateForPositiveWidth(c) == IF c.avg_width_sum > 0 THEN EstimateForAnyWidth(c) ELSE 0

(* the positions of the rows of a table in what the query returned *)
RowsOfTable(rows, c) ==
    {k \in DOMAIN rows :
        rows[k].schema_name = c.nspname /\ rows[k].table_name = c.relname}

(* a table is reported, once and with that estimate, iff the estimate is   *)
(* positive                                                                *)
ReportedWith(rows, c, estimate) ==
    /\ Cardinality(RowsOfTable(rows, c)) = IF estimate > 0 THEN 1 ELSE 0
    /\ \A k \in RowsOfTable(rows, c) : rows[k].bloat_size = I64FromInt(estimate)

(* every row is the row of an analysed table, and the bloat sizes do not   *)
(* increase along the rows                                                 *)
OrderedRowsOfTables(rows, catalog) ==
    /\ \A k \in DOMAIN rows :
          \E j \in DOMAIN catalog :
              IsAnalysedTable(catalog[j]) /\ k \in RowsOfTable(rows, catalog[j])
    /\ \A i, j \in DOMAIN rows :
          i < j => I64Ge(rows[i].bloat_size, rows[j].bloat_size)

(* C24 as stated: for every table with positive live-row count and         *)
(* positive actual size, whatever its average row data width (0 included), *)
(* the estimated bloat bytes are                                           *)
(* max(0, actual_size - live_tuples * (avg_row_data_width + 35)); only the *)
(* tables with a positive estimate are reported, by bloat bytes            *)
(* descending.                                                             *)
C24_BloatEstimateForAnyWidth ==
    pc = "return" =>
        /\ \A k \in DOMAIN input :
              IsAnalysedTable(input[k])
                => ReportedWith(output, input[k], EstimateForAnyWidth(input[k]))
        /\ OrderedRowsOfTables(output, input)

(* C24 amended: the estimate is                                            *)
(* max(0, actual_size - live_tuples * (avg_row_data_width + 35)) for a     *)
(* table with a positive average row data width and 0 for a table whose    *)
(* width is 0; only the tables with a positive estimate are reported, by   *)
(* bloat bytes descending.                                                 *)
C24_BloatEstimateForPositiveWidth ==
    pc = "return" =>
        /\ \A k \in DOMAIN input :
              IsAnalysedTable(input[k])
                => ReportedWith(output, input[k], EstimateForPositiveWidth(input[k]))
        /\ OrderedRowsOfTables(output, input)

(* a table of 8192 bytes with one live row of width 65 is reported with    *)
(* 8092 bytes of bloat, before a table with 7192                           *)
C24_Witness ==
    /\ pc = "return"
    /\ Len(input) = 2
    /\ input[2].reltuples = 1 /\ input[2].relation_size = 8192
    /\ input[2].avg_width_sum = 65
    /\ Len(output) = 2
    /\ output[1].table_name = "orders"
    /\ output[1].bloat_size = I64FromInt(8092)
    /\ output[2].bloat_size = I64FromInt(7192)

(* min(floor(log2(m) / 10), 6) for a magnitude m > 0: the number of bits   *)
(* of m, less one, is floor(log2(m))                                       *)
ExactUnitIndex(m) ==
    IF (MagBits(m) - 1) \div 10 < 6 THEN (MagBits(m) - 1) \div 10 ELSE 6

(* the rendering of a magnitude m > 0 with its sign: the unit of the exact *)
(* index and m, as the nearest f64, over the matching power of 1024        *)
RenderingOf(sign, m) ==
    [fmt |-> "{sign}{converted_value:.2} {}",
     args |-> <<sign,
                [neg |-> FALSE, mag |-> as_f64(I64(FALSE, m)).mag,
                 pow |-> ExactUnitIndex(m)],
                units[ExactUnitIndex(m) + 1]>>]

(* C25 as stated: bytes_to_human_readable renders 0 as "0 B"; for every    *)
(* other n it picks the unit at index min(floor(log2(|n|) / 10), 6) and    *)
(* divides |n| by the matching power of 1024, so the unit changes exactly  *)
(* at each power of 1024; the index is within the unit table for every     *)
(* 64-bit input; a negative n renders as "-" followed by the rendering of  *)
(* |n|.                                                                    *)
C25_HumanReadableUnits ==
    /\ pc # "panic"
    /\ pc = "return" =>
          IF input.mag = <<>> THEN output = [fmt |-> "0 B", args |-> <<>>]
          ELSE output = RenderingOf(IF input.neg THEN "-" ELSE "", input.mag)

(* the positions of the registry whose check ran and returned a result *)
Succeeded == {k \in DOMAIN outcome : outcome[k] = "ok"}

(* C26: a failed check never raises the aggregate status: the exit status  *)
(* is the one of the results of the checks that succeeded, so a run in     *)
(* which every selected check fails, or in which no check is selected,     *)
(* ends with aggregate Ok and exit status 0.                               *)
C26_FailedCheckNeverRaisesStatus ==
    RunCompleted =>
        /\ Len(reports[1]) = Cardinality(Succeeded)
        /\ \A j \in DOMAIN reports[1] :
              \E k \in Succeeded : reports[1][j].check_id = all_checks[k].id
        /\ exit_code
              = Some(Maximum({0} \cup {ResultRank(reports[1][j]) : j \in DOMAIN reports[1]}))
        /\ Succeeded = {} => (reports[1] = <<>> /\ exit_code = Some(0))

(* every check is selected and every one of them fails *)
C26_Witness ==
    /\ RunCompleted
    /\ outcome = <<"err", "err", "err">>
    /\ Len(errors) = 3
    /\ reports = <<(<<>>)>>
    /\ exit_code = Some(0)

(* the text is an integer text of a value in the i64 range *)
ParsesAsI64(v) == IsIntegerText(v) /\ InI64Range(IntegerValue(v))

(* C27: for every setting text that parses as a signed 64-bit integer and  *)
(* every unit the multiplication by the unit multiplier never leaves the   *)
(* signed 64-bit range: the call is not aborted, and the value returned is *)
(* the exact mathematical product, not a wrapped one.                      *)
C27_MultiplicationNeverOverflows ==
    /\ pc # "panic"
    /\ (pc = "return" /\ ParsesAsI64(input.setting)) =>
          /\ InI64Range(ExactProduct(IntegerValue(input.setting),
                                     UnitMultiplier(input.unit)))
          /\ output.some
          /\ output.value = ExactProduct(IntegerValue(input.setting),
                                         UnitMultiplier(input.unit))

====
